---- MODULE Spec2Model ----
(***************************************************************************)
(* BibReview (revsys): the multi-source retrieval engine.                  *)
(*                                                                         *)
(*   Spec       the `search` command of cli.py: the query x source loop,   *)
(*              the try/except around each adapter, the per-query          *)
(*              concatenation and drop_duplicates.                         *)
(*   SpecFetch  one invocation of a source adapter (clients/*.py) against  *)
(*              a simulated source: the pagination loop, the HTTP attempts *)
(*              of each page fetch and the retry policy around them.       *)
(*   SpecRecord one raw item of a source turned into a record of the       *)
(*              twenty standard columns by each of the nine adapters.      *)
(*   SpecClean  the abstract cleaning of CrossrefAPI.process_data, applied *)
(*              to a raw abstract and then to its own result.              *)
(*                                                                         *)
(* and the pieces of the review pipeline around it:                        *)
(*                                                                         *)
(*   SpecPubMed        one call of PubMedAPI.search: its ESearch and       *)
(*                     EFetch requests and the retries around them.        *)
(*   SpecPair          two overlapped calls of PubMedAPI.search on one     *)
(*                     instance, interleaved line by line.                 *)
(*   SpecPretriage     one call of pretriage_records (pretriage.py).       *)
(*   SpecTriage        the `triage` command of cli.py.                     *)
(*   SpecOrchestrator  the stages of orchestrator.py.                      *)
(*   SpecChunk         one call of chunk_text (rag.py), under weak         *)
(*                     fairness of its steps.                              *)
(*   SpecScholar       the publication loop of ScholarClient.search.       *)
(***************************************************************************)
EXTENDS Integers, Sequences, FiniteSets, TLC

(***************************************************************************)
(* Bounds of the model.                                                    *)
(***************************************************************************)
\* longest DataFrame one simulated adapter invocation returns
MaxOut == 1
\* most adapter invocations (queries x sources) in one run of `search`
MaxCalls == 4
\* largest page size an adapter is configured with
MaxRows == 2
\* largest record limit an adapter is given
MaxLimit == 3
\* most items the simulated source holds for a query
MaxTotal == 4
\* largest page the simulated source serves
MaxPage == 3
\* most failing HTTP attempts in one adapter invocation
MaxFaults == 3
\* most failures injected in one call of PubMedAPI.search
MaxPmFaults == 9
\* most rows of the CSV given to the triage command
MaxTriage == 2
\* longest text given to chunk_text
MaxText == 4
\* largest chunk_size given to chunk_text
MaxChunkSize == 3
\* largest overlap given to chunk_text
MaxOverlap == 3
\* most publications Google Scholar yields for a query
MaxPubs == 4

NA == "N/A"

Min(a, b) == IF a <= b THEN a ELSE b
Max(a, b) == IF a >= b THEN a ELSE b

\* the sequences over S of length at most n
SeqUpTo(S, n) == UNION {[1..k -> S] : k \in 0..n}

RECURSIVE Flatten(_)
\* pd.concat(df_list, ignore_index=True): the frames' rows, in list order
Flatten(frames) ==
    IF frames = <<>> THEN <<>>
    ELSE Head(frames) \o Flatten(Tail(frames))

RECURSIVE Join(_, _)
\* sep.join(parts)
Join(parts, sep) ==
    IF parts = <<>> THEN ""
    ELSE IF Len(parts) = 1 THEN parts[1]
    ELSE parts[1] \o sep \o Join(Tail(parts), sep)

\* date.split("-")[0]
YearOf(date) == date[1]

(***************************************************************************)
(* The search command (cli.py).                                            *)
(***************************************************************************)
VARIABLES
    query_list,     \* list(query): the -q options
    sources_list,   \* list(sources), or default_sources when none was given
    from_date,      \* --from-date, as its "-"-separated parts (<<>>: None)
    to_date,        \* --to-date, as its "-"-separated parts (<<>>: None)
    qi,             \* position of `qry` in query_list
    si,             \* position of `src` in sources_list
    df_list,        \* the non-empty DataFrames collected so far
    result,         \* the collection last written to `output` (<<>>: none)
    calls,          \* the adapter invocations made, in order
    echo,           \* what click.echo reported, in order
    pc              \* "loop" | "aggregate" | "done"

searchVars == <<query_list, sources_list, from_date, to_date, qi, si, df_list, result, calls, echo, pc>>

(***************************************************************************)
(* One adapter invocation (clients/*.py) and the simulated source.         *)
(***************************************************************************)
VARIABLES
    adapter,         \* the adapter invoked
    rows,            \* the page size the adapter asks for and steps by
                     \* (max_results, self.rows, count, p)
    max_records,     \* the record limit (total_limit, max_records); 0: None
    total_available, \* how many items the source holds for the query
    page_size,       \* the largest page the source serves
    item_year,       \* the publication year of each item the source holds
    start_year,      \* arXiv: the first year asked for (0: None)
    end_year,        \* arXiv: the last year asked for (0: None)
    offset,          \* start / offset / params["s"] of the next request
    next_page,       \* SpringerNature: the nextPage link (0: None)
    all_records,     \* all_articles / all_records: the items collected
    collected,       \* arXiv: the counter `collected`
    pages,           \* the page responses processed, in order
    attempt,         \* HTTP attempts made by the current page fetch
    errs,            \* the failures of the current page fetch, in order
    page_error,      \* the error the page fetch raised ("none": none)
    faults,          \* failures injected in this invocation
    fstate           \* "idle" | "fetching" | "returned" | "raised"

fetchVars == <<adapter, rows, max_records, total_available, page_size, item_year,
               start_year, end_year, offset, next_page, all_records, collected, pages, attempt, errs,
               page_error, faults, fstate>>

(***************************************************************************)
(* One raw item of a source turned into a record (clients/*.py).           *)
(***************************************************************************)
VARIABLES
    api,             \* the adapter that builds the record
    item,            \* the raw item as the source returned it
    registro,        \* the record built from it (<<>>: none)
    rstate           \* "idle" | "raw" | "record" | "skipped" | "raised"

recordVars == <<api, item, registro, rstate>>

(***************************************************************************)
(* The abstract cleaning of CrossrefAPI.process_data, applied repeatedly.  *)
(***************************************************************************)
VARIABLES
    raw_abstract,    \* item.get("abstract", ""), as a sequence of characters
    abstract,        \* the value process_data stores, each time it is applied
    cstate           \* "idle" | "raw" | "cleaned" | "recleaned"

cleanVars == <<raw_abstract, abstract, cstate>>

(***************************************************************************)
(* One call of PubMedAPI.search (clients/pubmed_api.py) against a          *)
(* simulated E-utilities service.                                          *)
(***************************************************************************)
VARIABLES
    fetch_all,       \* the fetch_all argument
    retmax,          \* the retmax argument (0: None)
    id_count,        \* how many PMIDs the service holds for the query
    total_count,     \* what _get_total_count returned
    current_start,   \* _fetch_all_pmids: retstart of the next ESearch page
    all_pmids,       \* all_pmids / pmid_list: the PMIDs resolved so far
    chunk_start,     \* `start` of the next EFetch batch
    raw_entries,     \* the entries collected, each named by its PMID
    requests,        \* the network requests made, in order
    tries,           \* failed attempts of the innermost decorated call
    restarts,        \* failed attempts of _fetch_all_pmids
    pm_faults,       \* failures injected in this call
    pstate           \* "idle" | "count" | "pmids" | "details" | "returned" | "raised"

pubmedVars == <<fetch_all, retmax, id_count, total_count, current_start, all_pmids,
                chunk_start, raw_entries, requests, tries, restarts, pm_faults, pstate>>

(***************************************************************************)
(* Two calls of PubMedAPI.search on one instance, overlapped.              *)
(***************************************************************************)
VARIABLES
    datetype,        \* self.datetype ("": None)
    mindate,         \* self.mindate (0: None)
    maxdate,         \* self.maxdate (0: None)
    args,            \* each call's own query, from_date and to_date
    line,            \* the line of pubmed_api.py each call is to run next
    params_esearch,  \* each call's ESearch parameters, as built so far
    answer           \* what each call returned (<<>>: nothing yet)

pairVars == <<datetype, mindate, maxdate, args, line, params_esearch, answer>>

(***************************************************************************)
(* One call of pretriage_records (pretriage.py).                           *)
(***************************************************************************)
VARIABLES
    input_records,   \* records: each with its similarity to every key term
    inclusion_keys,  \* how many inclusion terms were given
    exclusion_keys,  \* how many exclusion terms were given
    has_key,         \* whether OPENAI_API_KEY is set
    client_ok,       \* whether client.embeddings.create answers
    sim_incl,        \* the inclusion score of each embedded text
    sim_excl,        \* the exclusion score of each embedded text
    filtered,        \* the records kept so far
    zi,              \* how many triples the zip of the filter loop has yielded
    tstate           \* "idle" | "called" | "scored" | "returned" | "raised"

pretriageVars == <<input_records, inclusion_keys, exclusion_keys, has_key, client_ok,
                   sim_incl, sim_excl, filtered, zi, tstate>>

(***************************************************************************)
(* The triage command (cli.py).                                            *)
(***************************************************************************)
VARIABLES
    tri_records,     \* records: the rows of the input CSV, then what
                     \* pre-triage left of them
    tri_input,       \* the rows of the input CSV
    incl_keys,       \* whether --incl-key was given
    api_key,         \* whether OPENAI_API_KEY is set
    pre_failed,      \* whether pretriage_records raised
    ci,              \* how many records classify_record has been called for
    included,        \* the records the LLM included
    llm_calls,       \* how many chat completions were asked for
    output_csv,      \* the rows written to --output (<<>> before the write)
    gstate           \* "idle" | "loaded" | "pretriaged" | "classifying" | "saved"

triageVars == <<tri_records, tri_input, incl_keys, api_key, pre_failed, ci, included,
                llm_calls, output_csv, gstate>>

(***************************************************************************)
(* The orchestrator (orchestrator.py).                                     *)
(***************************************************************************)
VARIABLES
    given,           \* which of --from-date / --to-date were given
    started,         \* the stage commands started, in order
    exits,           \* the exit status of each stage that has exited
    shown,           \* what click.echo printed, in order
    ostate           \* "idle" | "ready" | "running" | "exited" | "failed" | "finished"

orchestratorVars == <<given, started, exits, shown, ostate>>

(***************************************************************************)
(* One call of chunk_text (rag.py).                                        *)
(***************************************************************************)
VARIABLES
    raw_text,        \* text, as the sequence of its character positions
    rag_chunk_size,  \* the chunk_size argument
    overlap,         \* the overlap argument
    rag_start,       \* start
    chunks,          \* chunks, up to the first ChunkCap of them
    beyond,          \* whether the number of chunks beyond those is odd
    kstate           \* "idle" | "called" | "looping" | "returned"

chunkVars == <<raw_text, rag_chunk_size, overlap, rag_start, chunks, beyond, kstate>>

(***************************************************************************)
(* One call of ScholarClient.search (clients/scholar.py).                  *)
(***************************************************************************)
VARIABLES
    pubs,            \* what scholarly.search_pubs yields, in order
    scholar_max,     \* max_records
    idx,             \* idx of the publication the loop is to take next
    url,             \* the local variable `url`
    scholar_records, \* records
    sstate           \* "idle" | "looping" | "returned" | "raised"

scholarVars == <<pubs, scholar_max, idx, url, scholar_records, sstate>>

\* the variables of the models that follow the retrieval engine's four
laterVars == <<pubmedVars, pairVars, pretriageVars, triageVars, orchestratorVars,
               chunkVars, scholarVars>>

vars == <<searchVars, fetchVars, recordVars, cleanVars, laterVars>>

\* the retrieval engine's four models
retrievalVars == <<searchVars, fetchVars, recordVars, cleanVars>>

\* what the actions of each later model leave alone
otherThanPubMed ==
    <<retrievalVars, pairVars, pretriageVars, triageVars,
      orchestratorVars, chunkVars, scholarVars>>
otherThanPair ==
    <<retrievalVars, pubmedVars, pretriageVars, triageVars,
      orchestratorVars, chunkVars, scholarVars>>
otherThanPretriage ==
    <<retrievalVars, pubmedVars, pairVars, triageVars,
      orchestratorVars, chunkVars, scholarVars>>
otherThanTriage ==
    <<retrievalVars, pubmedVars, pairVars, pretriageVars,
      orchestratorVars, chunkVars, scholarVars>>
otherThanOrchestrator ==
    <<retrievalVars, pubmedVars, pairVars, pretriageVars,
      triageVars, chunkVars, scholarVars>>
otherThanChunk ==
    <<retrievalVars, pubmedVars, pairVars, pretriageVars,
      triageVars, orchestratorVars, scholarVars>>
otherThanScholar ==
    <<retrievalVars, pubmedVars, pairVars, pretriageVars,
      triageVars, orchestratorVars, chunkVars>>

\* no PubMed call is being simulated
IdlePubMed ==
    /\ fetch_all = FALSE /\ retmax = 0 /\ id_count = 0 /\ total_count = 0
    /\ current_start = 0 /\ all_pmids = <<>> /\ chunk_start = 0
    /\ raw_entries = <<>> /\ requests = <<>>
    /\ tries = 0 /\ restarts = 0 /\ pm_faults = 0
    /\ pstate = "idle"

\* no overlapped calls are being simulated
IdlePair ==
    /\ datetype = "" /\ mindate = 0 /\ maxdate = 0
    /\ args = <<>> /\ line = <<>> /\ params_esearch = <<>> /\ answer = <<>>

\* pretriage_records is not being simulated
IdlePretriage ==
    /\ input_records = <<>> /\ inclusion_keys = 0 /\ exclusion_keys = 0
    /\ has_key = FALSE /\ client_ok = FALSE
    /\ sim_incl = <<>> /\ sim_excl = <<>> /\ filtered = <<>> /\ zi = 0
    /\ tstate = "idle"

\* the triage command is not running
IdleTriage ==
    /\ tri_records = <<>> /\ tri_input = <<>>
    /\ incl_keys = FALSE /\ api_key = FALSE /\ pre_failed = FALSE
    /\ ci = 0 /\ included = <<>> /\ llm_calls = 0 /\ output_csv = <<>>
    /\ gstate = "idle"

\* the orchestrator is not running
IdleOrchestrator ==
    given = {} /\ started = <<>> /\ exits = <<>> /\ shown = <<>> /\ ostate = "idle"

\* chunk_text is not being simulated
IdleChunk ==
    /\ raw_text = <<>> /\ rag_chunk_size = 0 /\ overlap = 0 /\ rag_start = 0
    /\ chunks = <<>> /\ beyond = FALSE /\ kstate = "idle"

\* ScholarClient.search is not being simulated
IdleScholar ==
    /\ pubs = <<>> /\ scholar_max = 0 /\ idx = 0 /\ url = ""
    /\ scholar_records = <<>> /\ sstate = "idle"

\* none of the later models is running
IdleLater ==
    /\ IdlePubMed /\ IdlePair /\ IdlePretriage /\ IdleTriage
    /\ IdleOrchestrator /\ IdleChunk /\ IdleScholar

\* no adapter invocation is being simulated
IdleFetch ==
    /\ adapter = "none"
    /\ rows = 0 /\ max_records = 0 /\ total_available = 0 /\ page_size = 0
    /\ item_year = <<>> /\ start_year = 0 /\ end_year = 0
    /\ offset = 0 /\ next_page = 0
    /\ all_records = <<>> /\ collected = 0 /\ pages = <<>>
    /\ attempt = 0 /\ errs = <<>> /\ page_error = "none" /\ faults = 0
    /\ fstate = "idle"

\* no record is being built
IdleRecord == api = "none" /\ item = <<>> /\ registro = <<>> /\ rstate = "idle"

\* no abstract is being cleaned
IdleClean == raw_abstract = <<>> /\ abstract = <<>> /\ cstate = "idle"

\* the search command is not running
IdleSearch ==
    /\ query_list = <<>> /\ sources_list = <<>>
    /\ from_date = <<>> /\ to_date = <<>>
    /\ qi = 0 /\ si = 0
    /\ df_list = <<>> /\ result = <<>> /\ calls = <<>> /\ echo = <<>>
    /\ pc = "idle"

\* the retrieval engine's four models are not running
IdleRetrieval == IdleSearch /\ IdleFetch /\ IdleRecord /\ IdleClean

\* the (DOI, Title) pairs simulated records carry
Keys == { <<NA, NA>>, <<"10.1/a", "T1">>, <<"10.1/a", "T2">> }

\* click.Choice of --sources
SourceNames == {"arxiv", "crossref", "openalex", "plos", "pubmed", "scopus",
                "springernature", "scholar", "ieee"}

default_sources == <<"arxiv", "crossref", "openalex">>

\* the --sources options tried (<<>>: the option was not given)
SourceOptions == { <<>>, <<"crossref">>, <<"scopus", "crossref">>,
                   <<"plos", "pubmed">>, <<"springernature", "scholar", "ieee">> }

\* the --query options tried (required, multiple)
QueryOptions == { <<"q1">>, <<"q1", "q2">> }

\* the DataFrame an adapter returns for one invocation: its rows carry the
\* dedup key, the adapter's API tag and the row's provenance (call, position)
Frame(keys, src, call) ==
    [i \in 1..Len(keys) |->
        [DOI |-> keys[i][1], Title |-> keys[i][2], API |-> src, row |-> <<call, i>>]]

\* the argument the dispatch passes as the adapter's query
QueryArg(src, qry, query) ==
    IF src \in {"openalex", "plos"} THEN query ELSE <<qry>>

SameKey(a, b) == a.DOI = b.DOI /\ a.Title = b.Title

\* drop_duplicates with keep='last'
DropDuplicatesKeepLast(df) ==
    LET keep == {i \in 1..Len(df) : \A j \in (i + 1)..Len(df) : ~SameKey(df[j], df[i])}
        F[i \in 0..Len(df)] ==
            IF i = 0 THEN <<>>
            ELSE IF i \in keep THEN Append(F[i - 1], df[i]) ELSE F[i - 1]
    IN F[Len(df)]

\* result.drop_duplicates(subset=['DOI', 'Title'], keep='first')
DropDuplicates(df) ==
    LET keep == {i \in 1..Len(df) : \A j \in 1..(i - 1) : ~SameKey(df[j], df[i])}
        F[i \in 0..Len(df)] ==
            IF i = 0 THEN <<>>
            ELSE IF i \in keep THEN Append(F[i - 1], df[i]) ELSE F[i - 1]
    IN F[Len(df)]

\* the --from-date and --to-date options tried (<<>>: not given)
FromDateOptions == { <<>>, <<"2021", "03", "01">> }

ToDateOptions == { <<>>, <<"2023", "12", "31">> }

\* a date parameter the request does not carry
NotSent == "not sent"

\* ScopusFetcher.fetch_references: date_research = "2022-2025"
date_research == [from |-> "2022", to |-> "2025"]

\* the date bounds the adapter's requests carry for the options given:
\* Crossref from-pub-date / until-pub-date, PubMed mindate / maxdate and
\* SpringerNature dateFrom / dateTo take the option as it is; Scopus is given
\* "{from year}-{to year}" when both options are there and falls back on its
\* default range otherwise; IEEE start_year / end_year take the years; the
\* other adapters send no date
DateParams(src) ==
    IF src \in {"crossref", "pubmed", "springernature"}
    THEN [from |-> IF from_date # <<>> THEN Join(from_date, "-") ELSE NotSent,
          to   |-> IF to_date # <<>> THEN Join(to_date, "-") ELSE NotSent]
    ELSE IF src = "scopus"
    THEN (IF from_date # <<>> /\ to_date # <<>>
          THEN [from |-> YearOf(from_date), to |-> YearOf(to_date)]
          ELSE date_research)
    ELSE IF src = "ieee"
    THEN [from |-> IF from_date # <<>> THEN YearOf(from_date) ELSE NotSent,
          to   |-> IF to_date # <<>> THEN YearOf(to_date) ELSE NotSent]
    ELSE [from |-> NotSent, to |-> NotSent]

InitSearch ==
    /\ query_list \in QueryOptions
    /\ \E sources \in SourceOptions :
          sources_list = IF sources # <<>> THEN sources ELSE default_sources
    /\ Len(query_list) * Len(sources_list) <= MaxCalls
    /\ from_date \in FromDateOptions
    /\ to_date \in ToDateOptions
    /\ qi = 1
    /\ si = 1
    /\ df_list = <<>>
    /\ result = <<>>
    /\ calls = <<>>
    /\ echo = <<>>
    /\ pc = "loop"

\* the inner loop's advance: the next source, or the query's aggregation
NextSource ==
    IF si < Len(sources_list)
    THEN si' = si + 1 /\ pc' = "loop"
    ELSE si' = si /\ pc' = "aggregate"

\* the handler that ends the whole command on an adapter's exception
AbortOnError(src) ==
    /\ echo' = echo \o << [q |-> qi, msg |-> "Searching", src |-> src],
                          [q |-> qi, msg |-> "Error", src |-> src] >>
    /\ pc' = "done"
    /\ UNCHANGED <<si, df_list>>

\* except Exception as e: click.echo(..., err=True); continue
SkipOnError(src) ==
    /\ echo' = echo \o << [q |-> qi, msg |-> "Searching", src |-> src],
                          [q |-> qi, msg |-> "Error", src |-> src] >>
    /\ df_list' = df_list
    /\ NextSource

\* one pass of `for src in sources_list` in which the adapter raises
SearchRaises ==
    /\ pc = "loop"
    /\ LET src == sources_list[si] IN
          /\ calls' = Append(calls, [q |-> qi, src |-> src, raised |-> TRUE,
                                     query |-> QueryArg(src, query_list[qi], query_list),
                                     dates |-> DateParams(src),
                                     df |-> <<>>])
          /\ SkipOnError(src)
    /\ UNCHANGED <<query_list, sources_list, from_date, to_date, qi, result, fetchVars, recordVars, cleanVars, laterVars>>

\* one pass of `for src in sources_list` in which the adapter returns df
SearchReturns ==
    /\ pc = "loop"
    /\ \E keys \in SeqUpTo(Keys, MaxOut) :
          LET src == sources_list[si]
              df  == Frame(keys, src, Len(calls) + 1)
          IN  /\ calls' = Append(calls, [q |-> qi, src |-> src, raised |-> FALSE,
                                         query |-> QueryArg(src, query_list[qi], query_list),
                                         dates |-> DateParams(src),
                                         df |-> df])
              /\ IF src = "crossref" /\ df = <<>>
                 THEN \* raise ValueError("Crossref returned an empty dataframe")
                      SkipOnError(src)
                 ELSE /\ echo' = Append(echo, [q |-> qi, msg |-> "Searching", src |-> src])
                      /\ df_list' = IF df # <<>> THEN Append(df_list, df) ELSE df_list
                      /\ NextSource
    /\ UNCHANGED <<query_list, sources_list, from_date, to_date, qi, result, fetchVars, recordVars, cleanVars, laterVars>>

\* after the inner loop: the next query, or the end of the command
NextQuery ==
    IF qi < Len(query_list)
    THEN qi' = qi + 1 /\ si' = 1 /\ pc' = "loop"
    ELSE qi' = qi /\ si' = si /\ pc' = "done"

\* if df_list: concat, drop_duplicates, to_csv, "Saved n records"
AggregateSave ==
    /\ pc = "aggregate"
    /\ df_list # <<>>
    /\ result' = DropDuplicates(Flatten(df_list))
    /\ echo' = Append(echo, [q |-> qi, msg |-> "Saved", src |-> NA])
    /\ NextQuery
    /\ UNCHANGED <<query_list, sources_list, from_date, to_date, df_list, calls, fetchVars, recordVars, cleanVars, laterVars>>

\* else: "No records found."
AggregateNone ==
    /\ pc = "aggregate"
    /\ df_list = <<>>
    /\ echo' = Append(echo, [q |-> qi, msg |-> "No records found", src |-> NA])
    /\ NextQuery
    /\ UNCHANGED <<query_list, sources_list, from_date, to_date, df_list, result, calls, fetchVars, recordVars, cleanVars, laterVars>>

Init == InitSearch /\ IdleFetch /\ IdleRecord /\ IdleClean /\ IdleLater

Next ==
    \/ SearchRaises
    \/ SearchReturns
    \/ AggregateSave
    \/ AggregateNone

Spec == Init /\ [][Next]_vars

(***************************************************************************)
(* The retry policy (http_retry.py) and the adapters' page fetches.        *)
(***************************************************************************)
\* stop=stop_after_attempt(3)
STOP_AFTER_ATTEMPT == 3

\* SpringerNature.fetch_data: max_retries = 3
max_retries == 3

Adapters == {"arxiv", "crossref", "plos", "scopus", "springernature", "ieee"}

\* the adapters whose page fetch is decorated with @retry_on_fail
UsesRetryOnFail(a) == a \in {"arxiv", "scopus", "plos"}

\* how one HTTP attempt can fail: no connection, a timeout (only where the
\* call sets one), or a response with a 503, 500 or 401 status
FailureKinds(a) ==
    IF a = "springernature"
    THEN {"conn", "timeout", "503", "500", "401"}
    ELSE {"conn", "503", "500", "401"}

\* the exception the adapter's page function raises on a failed attempt:
\* requests raises ConnectionError / Timeout itself; a bad status becomes an
\* HTTPError (raise_for_status) or a bare Exception (status_code != 200)
Raises(a, kind) ==
    IF kind = "conn" THEN "ConnectionError"
    ELSE IF kind = "timeout" THEN "Timeout"
    ELSE IF a \in {"arxiv", "scopus"} THEN "Exception"
    ELSE "HTTPError"

\* the subclasses of requests.exceptions.RequestException
IsRequestException(exc) == exc \in {"ConnectionError", "Timeout", "HTTPError"}

\* retry_on_fail: whether tenacity calls again after attempt n raised exc
RetryOnFail(exc, n) == IsRequestException(exc) /\ n < STOP_AFTER_ATTEMPT

\* SpringerNature.fetch_data: the except clauses that sleep and `continue`
\* (HTTPError with 503/504, Timeout, RequestException); any other HTTPError
\* is raised at once
SpringerContinues(kind) == kind \in {"503", "timeout", "conn"}

\* whether the page fetch makes another attempt after attempt n failed
TriesAgain(a, viaLink, kind, n) ==
    IF UsesRetryOnFail(a) THEN RetryOnFail(Raises(a, kind), n)
    ELSE IF a = "springernature" /\ ~viaLink
         THEN SpringerContinues(kind) /\ n < max_retries
         ELSE FALSE

\* the error that leaves the page fetch when it gives up: the exception of
\* the last attempt (reraise=True), or fetch_data's own
\* Exception("Falha na consulta apos 3 tentativas") after its loop
GivesUpWith(a, viaLink, kind) ==
    IF a = "springernature" /\ ~viaLink /\ SpringerContinues(kind)
    THEN "Exception"
    ELSE Raises(a, kind)

\* what the adapter does with an error of its page fetch: ScopusFetcher
\* catches it, prints and breaks (returning what it has); the others let it
\* propagate
AfterPageError(a) == IF a = "scopus" THEN "returned" ELSE "raised"

\* the page the source serves from 0-based position start0 when n items are
\* asked for: the items are named by their 1-based position in the result set
Serve(start0, n) ==
    LET cnt == Max(0, Min(n, total_available - start0))
    IN  [i \in 1..cnt |-> start0 + i]

\* the page size in effect: Scopus is never sent `count`, so the source uses
\* its own; the others send their page size, which the source may cap
EffectivePage == IF adapter = "scopus" THEN page_size ELSE Min(rows, page_size)

\* the year a date bound of the simulated invocations names
AskedYear == 2022

\* the publication years of the simulated items: before, in and after it
Years == {AskedYear - 1, AskedYear, AskedYear + 1}

\* start_year and end_year as the caller passes them (0: None)
YearOptions == {0, AskedYear}

InitFetch ==
    /\ adapter \in Adapters
    /\ rows \in 1..MaxRows
    /\ max_records \in 0..MaxLimit
    /\ adapter \in {"scopus", "ieee"} => max_records = rows
    /\ total_available \in 0..MaxTotal
    /\ page_size \in 1..MaxPage
    /\ item_year \in [1..total_available -> Years]
    /\ start_year \in YearOptions
    /\ end_year \in YearOptions
    /\ adapter # "arxiv" =>
          /\ item_year = [i \in 1..total_available |-> AskedYear]
          /\ start_year = 0 /\ end_year = 0
    /\ offset = IF adapter = "springernature" THEN 1 ELSE 0
    /\ next_page = 0
    /\ all_records = <<>>
    /\ collected = 0
    /\ pages = <<>>
    /\ attempt = 0
    /\ errs = <<>>
    /\ page_error = "none"
    /\ faults = 0
    /\ fstate = "fetching"

\* the inputs of the invocation, which no step changes
fetchInputs == <<adapter, rows, max_records, total_available, page_size, item_year,
                 start_year, end_year>>

\* one HTTP attempt of the current page fetch fails
AttemptFails ==
    /\ fstate = "fetching"
    /\ faults < MaxFaults
    /\ \E kind \in FailureKinds(adapter) :
          LET n == attempt + 1
              viaLink == adapter = "springernature" /\ next_page # 0
          IN  /\ attempt' = n
              /\ errs' = Append(errs, kind)
              /\ faults' = faults + 1
              /\ IF TriesAgain(adapter, viaLink, kind, n)
                 THEN UNCHANGED <<page_error, fstate>>
                 ELSE /\ page_error' = GivesUpWith(adapter, viaLink, kind)
                      /\ fstate' = AfterPageError(adapter)
    /\ UNCHANGED <<fetchInputs, offset, next_page, all_records, collected, pages,
                   searchVars, recordVars, cleanVars, laterVars>>

\* the end of one pass of the adapter's `while True`: break (done) or go
\* round again, with the paging position left at newOffset
LoopStep(done, newOffset) ==
    /\ offset' = newOffset
    /\ fstate' = IF done THEN "returned" ELSE "fetching"
    /\ attempt' = 0
    /\ errs' = <<>>
    /\ UNCHANGED <<page_error, faults>>

\* arXiv's date filter: the entry is skipped with `continue`
OutOfRange(entry) ==
    \/ start_year # 0 /\ item_year[entry] < start_year
    \/ end_year # 0 /\ item_year[entry] > end_year

\* the loop over the entries without the date filter
ArxivKeepUnfiltered(entries, have) ==
    LET F[i \in 0..Len(entries)] ==
            IF i = 0 THEN [kept |-> <<>>, stop |-> FALSE]
            ELSE LET prev == F[i - 1] IN
                 IF prev.stop THEN prev
                 ELSE [kept |-> Append(prev.kept, entries[i]),
                       stop |-> max_records # 0
                                /\ have + Len(prev.kept) + 1 >= max_records]
    IN  F[Len(entries)].kept

\* arXiv's `for entry in entries`: the entries appended to all_articles when
\* `have` were collected before the page
ArxivKeep(entries, have) ==
    LET F[i \in 0..Len(entries)] ==
            IF i = 0 THEN [kept |-> <<>>, stop |-> FALSE]
            ELSE LET prev == F[i - 1] IN
                 IF prev.stop \/ OutOfRange(entries[i]) THEN prev
                 ELSE [kept |-> Append(prev.kept, entries[i]),
                       stop |-> max_records # 0
                                /\ have + Len(prev.kept) + 1 >= max_records]
    IN  F[Len(entries)].kept

\* ArxivFetcher.fetch_references: one page arrives and is processed
ArxivPage ==
    /\ adapter = "arxiv"
    /\ fstate = "fetching"
    /\ LET entries == Serve(offset, EffectivePage)
           kept    == ArxivKeep(entries, collected)
           n       == collected + Len(kept)
       IN  /\ pages' = Append(pages, [start |-> offset, items |-> entries])
           /\ IF entries = <<>>
              THEN /\ UNCHANGED <<all_records, collected>>
                   /\ LoopStep(TRUE, offset)
              ELSE /\ all_records' = all_records \o kept
                   /\ collected' = n
                   /\ IF Len(entries) < rows \/ (max_records # 0 /\ n >= max_records)
                      THEN LoopStep(TRUE, offset)
                      ELSE LoopStep(FALSE, offset + rows)
    /\ UNCHANGED <<fetchInputs, next_page, searchVars, recordVars, cleanVars, laterVars>>

\* all_records = all_records[:max_records]
Truncate(recs) ==
    IF max_records # 0 /\ Len(recs) >= max_records
    THEN SubSeq(recs, 1, max_records)
    ELSE recs

\* CrossrefAPI.run_pipeline and PlosAPI.run_pipeline: one page arrives
OffsetTotalPage(a) ==
    /\ adapter = a
    /\ fstate = "fetching"
    /\ LET records == Serve(offset, EffectivePage)
           acc     == all_records \o records
       IN  /\ pages' = Append(pages, [start |-> offset, items |-> records])
           /\ IF records = <<>>
              THEN /\ UNCHANGED all_records
                   /\ LoopStep(TRUE, offset)
              ELSE /\ all_records' = Truncate(acc)
                   /\ IF max_records # 0 /\ Len(acc) >= max_records
                      THEN LoopStep(TRUE, offset)
                      ELSE LoopStep(offset + rows >= total_available, offset + rows)
    /\ UNCHANGED <<fetchInputs, next_page, collected, searchVars, recordVars, cleanVars, laterVars>>

CrossrefPage == OffsetTotalPage("crossref")

PlosPage == OffsetTotalPage("plos")

\* ScopusFetcher.fetch_references: one page arrives (count is `rows`)
ScopusPage ==
    /\ adapter = "scopus"
    /\ fstate = "fetching"
    /\ LET entries == Serve(offset, EffectivePage)
       IN  /\ pages' = Append(pages, [start |-> offset, items |-> entries])
           /\ all_records' = all_records \o entries
           /\ IF entries = <<>>
              THEN LoopStep(TRUE, offset)
              ELSE IF Len(entries) <= rows
              THEN LoopStep(TRUE, offset)
              ELSE LoopStep(FALSE, offset + rows)
    /\ UNCHANGED <<fetchInputs, next_page, collected, searchVars, recordVars, cleanVars, laterVars>>

\* SpringerNature.run_pipeline: one page arrives (p is `rows`; positions are
\* 1-based as the API's `s`); the response may or may not carry a nextPage
\* link to the position after its last record
SpringerPage ==
    /\ adapter = "springernature"
    /\ fstate = "fetching"
    /\ LET start   == IF next_page # 0 THEN next_page ELSE offset
           records == Serve(start - 1, EffectivePage)
           after   == start + Len(records)
           acc     == all_records \o records
           links   == IF records # <<>> /\ after <= total_available
                      THEN {0, after} ELSE {0}
       IN  /\ pages' = Append(pages, [start |-> start - 1, items |-> records])
           /\ IF records = <<>>
              THEN /\ UNCHANGED <<all_records, next_page>>
                   /\ LoopStep(TRUE, offset)
              ELSE IF max_records # 0 /\ Len(acc) >= max_records
              THEN /\ all_records' = Truncate(acc)
                   /\ UNCHANGED next_page
                   /\ LoopStep(TRUE, offset)
              ELSE /\ all_records' = acc
                   /\ \E link \in links :
                         /\ next_page' = link
                         /\ IF link # 0 THEN LoopStep(FALSE, offset)
                            ELSE IF Len(records) < rows
                            THEN LoopStep(TRUE, offset)
                            ELSE LoopStep(FALSE, offset + rows)
    /\ UNCHANGED <<fetchInputs, collected, searchVars, recordVars, cleanVars, laterVars>>

\* IeeeXplore.fetch_references: the single response arrives
IeeePage ==
    /\ adapter = "ieee"
    /\ fstate = "fetching"
    /\ LET articles == Serve(0, EffectivePage)
       IN  /\ pages' = Append(pages, [start |-> 0, items |-> articles])
           /\ all_records' = articles
           /\ LoopStep(TRUE, offset)
    /\ UNCHANGED <<fetchInputs, next_page, collected, searchVars, recordVars, cleanVars, laterVars>>

NextFetch ==
    \/ AttemptFails
    \/ ArxivPage
    \/ CrossrefPage
    \/ PlosPage
    \/ ScopusPage
    \/ SpringerPage
    \/ IeeePage

\* an adapter is invoked on its own, outside a run of the search command
FetchInit == InitFetch /\ IdleSearch /\ IdleRecord /\ IdleClean /\ IdleLater

SpecFetch == FetchInit /\ [][NextFetch]_vars

(***************************************************************************)
(* Abstract cleaning (CrossrefAPI.process_data).  A string is modelled as  *)
(* the sequence of its characters; an HTML entity is one element.          *)
(***************************************************************************)
\* longest raw abstract tried, in characters
MaxAbstract == 3

\* the characters raw abstracts are made of: a letter, a blank, the angle
\* brackets and the entities of the angle brackets
Chars == {"x", " ", "<", ">", "&lt;", "&gt;"}

\* the abstract "N/A", which holds no blank, bracket or entity
NAChars == <<NA>>

RECURSIVE LStrip(_)
LStrip(s) == IF s # <<>> /\ Head(s) = " " THEN LStrip(Tail(s)) ELSE s

RECURSIVE RStrip(_)
RStrip(s) ==
    IF s # <<>> /\ s[Len(s)] = " " THEN RStrip(SubSeq(s, 1, Len(s) - 1)) ELSE s

\* str.strip()
Strip(s) == RStrip(LStrip(s))

RECURSIVE StripTags(_)
\* re.sub(r'<[^>]+>', '', s): from the left, a "<" followed by at least one
\* character other than ">" and then a ">" is removed with all between
StripTags(s) ==
    IF s = <<>> THEN <<>>
    ELSE LET closers == {j \in 2..Len(s) : s[j] = ">"}
             close   == CHOOSE j \in closers : \A k \in closers : j <= k
         IN  IF Head(s) = "<" /\ closers # {} /\ close > 2
             THEN StripTags(SubSeq(s, close + 1, Len(s)))
             ELSE <<Head(s)>> \o StripTags(Tail(s))

\* html.unescape(s): one pass replacing each entity by its character
Unescape(s) ==
    [i \in 1..Len(s) |->
        IF s[i] = "&lt;" THEN "<" ELSE IF s[i] = "&gt;" THEN ">" ELSE s[i]]

RECURSIVE CollapseSpaces(_)
\* re.sub(r'\s+', ' ', s)
CollapseSpaces(s) ==
    IF Len(s) < 2 THEN s
    ELSE IF s[1] = " " /\ s[2] = " " THEN CollapseSpaces(Tail(s))
    ELSE <<Head(s)>> \o CollapseSpaces(Tail(s))

\* the abstract process_data stores for item.get("abstract", "") = raw
CleanAbstract(raw) ==
    IF Strip(raw) # <<>> /\ Strip(raw) # NAChars
    THEN Strip(CollapseSpaces(Unescape(StripTags(raw))))
    ELSE NAChars

InitClean ==
    /\ raw_abstract \in SeqUpTo(Chars, MaxAbstract)
    /\ abstract = <<>>
    /\ cstate = "raw"

\* process_data cleans the item's abstract
CleanOnce ==
    /\ cstate = "raw"
    /\ abstract' = CleanAbstract(raw_abstract)
    /\ cstate' = "cleaned"
    /\ UNCHANGED <<raw_abstract, searchVars, fetchVars, recordVars, laterVars>>

\* the stored abstract is given to process_data as an item's abstract again
CleanAgain ==
    /\ cstate = "cleaned"
    /\ abstract' = CleanAbstract(abstract)
    /\ cstate' = "recleaned"
    /\ UNCHANGED <<raw_abstract, searchVars, fetchVars, recordVars, laterVars>>

NextClean ==
    \/ CleanOnce
    \/ CleanAgain

CleanInit == InitClean /\ IdleSearch /\ IdleFetch /\ IdleRecord /\ IdleLater

SpecClean == CleanInit /\ [][NextClean]_vars

(***************************************************************************)
(* The records the adapters build (clients/*.py).                          *)
(***************************************************************************)
\* most authors a simulated item has
MaxAuthors == 3

STANDARD_COLUMNS ==
    {"ID", "Authors", "AuthorsYear", "Title", "Journal", "PublicationYear",
     "PublicationDate", "Abstract", "DOI", "Language", "IsAccepted",
     "IsPublished", "Type", "TypeCrossref", "IndexedIn", "IsOpenAccess",
     "OAStatus", "DownloadURL", "CitedByCount", "API"}

\* a field the raw item does not carry (an absent key or element)
Missing == "<missing>"

\* dict.get(key, default)
Get(v, default) == IF v = Missing THEN default ELSE v

\* the authors' names, each the sequence of its whitespace-delimited words
AuthorNames == { <<"Ana", "Silva">>, <<"Bo", "Souza">> }

\* the raw abstracts of simulated items (<<>>: none)
Texts == { <<>>, <<"x">>, <<"<", "x", ">">> }

\* the publication date of simulated items, as its "-"-separated parts
\* (<<>>: none)
Dates == { <<>>, <<"2023", "05", "20">> }

\* the name as the source renders it
FullName(name) == Join(name, " ")

\* full_name.split()[-1]
LastToken(name) == name[Len(name)]

FullNames(authors) == [i \in 1..Len(authors) |-> FullName(authors[i])]

LastTokens(authors) == [i \in 1..Len(authors) |-> LastToken(authors[i])]

\* the if / elif / else on len(names) that builds "Authors Year"
TagByCount(names, year, zero) ==
    IF names = <<>> THEN zero
    ELSE IF Len(names) = 1 THEN names[1] \o " " \o year
    ELSE IF Len(names) = 2 THEN names[1] \o " and " \o names[2] \o " " \o year
    ELSE names[1] \o " et al. " \o year

\* "Yes" if cond else "No"
YesNo(cond) == IF cond THEN "Yes" ELSE "No"

\* registro[coluna] = "N/A" for every standard column not in registro
padroniza_registro(r) ==
    [c \in STANDARD_COLUMNS |-> IF c \in DOMAIN r THEN r[c] ELSE NA]

InitRecord ==
    /\ api \in SourceNames
    /\ \E doi \in {Missing, "10.1/a"}, native \in {Missing, "id1"},
          meta \in BOOLEAN, date \in Dates,
          authors \in SeqUpTo(AuthorNames, MaxAuthors), text \in Texts,
          oa \in {Missing, "true", "false"}, link \in {Missing, "http://pdf"},
          stale \in {Missing, "http://earlier"} :
          /\ api # "scholar" => stale = Missing
          /\ item = [doi      |-> doi,
                     native   |-> native,
                     title    |-> IF meta THEN "T1" ELSE Missing,
                     journal  |-> IF meta THEN "J1" ELSE Missing,
                     language |-> IF meta THEN "en" ELSE Missing,
                     type     |-> IF meta THEN "journal-article" ELSE Missing,
                     cited    |-> IF meta THEN "7" ELSE Missing,
                     status   |-> IF meta THEN "ppublish" ELSE Missing,
                     indexed  |-> IF meta THEN "crossref" ELSE Missing,
                     date     |-> date,
                     authors  |-> authors,
                     text     |-> text,
                     oa       |-> oa,
                     link     |-> link,
                     stale    |-> stale]
    /\ registro = <<>>
    /\ rstate = "raw"

\* the adapter `a` handles the item: it appends a record, skips the item, or
\* an exception leaves it
Handle(a, outcome, r) ==
    /\ api = a
    /\ rstate = "raw"
    /\ rstate' = outcome
    /\ registro' = IF outcome = "record" THEN padroniza_registro(r) ELSE <<>>
    /\ UNCHANGED <<api, item, searchVars, fetchVars, cleanVars, laterVars>>

\* ArxivFetcher.fetch_references: `published` and `id` are read with
\* .find(...).text, which raises on an entry without them
ArxivRecord ==
    LET have     == item.date # <<>> /\ item.native # Missing
        pub_year == YearOf(item.date)
        doi      == Get(item.doi, NA)
        journal  == Get(item.journal, NA)
    IN  Handle("arxiv", IF have THEN "record" ELSE "raised",
          [ID |-> IF doi # NA THEN doi ELSE item.native,
           Authors |-> IF item.authors # <<>>
                       THEN Join(FullNames(item.authors), ", ") ELSE NA,
           AuthorsYear |-> TagByCount(LastTokens(item.authors), pub_year,
                                      "unknown " \o pub_year),
           Title |-> Get(item.title, NA),
           Journal |-> journal,
           PublicationYear |-> pub_year,
           PublicationDate |-> Join(item.date, "-"),
           Abstract |-> IF item.text # <<>> THEN Join(item.text, "") ELSE NA,
           DOI |-> doi,
           Language |-> NA,
           IsAccepted |-> NA,
           IsPublished |-> YesNo(journal # NA),
           Type |-> "arXiv",
           TypeCrossref |-> NA,
           IndexedIn |-> "arXiv",
           IsOpenAccess |-> "Yes",
           OAStatus |-> "Open Access",
           DownloadURL |-> Get(item.link, NA),
           CitedByCount |-> NA,
           API |-> "arxiv"])

\* CrossrefAPI._format_authors_year (every simulated author has a name)
CrossrefAuthorsYear(authors_data, pub_year) ==
    IF authors_data = <<>> THEN "Unknown " \o pub_year
    ELSE TagByCount(LastTokens(authors_data), pub_year, pub_year)

\* CrossrefAPI.process_data
CrossrefRecord ==
    LET doi      == Get(item.doi, NA)
        pub_year == IF item.date # <<>> THEN YearOf(item.date) ELSE NA
        pub_date == IF item.date # <<>> THEN Join(item.date, "-") ELSE NA
        type_val == Get(item.type, NA)
        licensed == item.oa = "true"
    IN  Handle("crossref", "record",
          [ID |-> doi,
           Authors |-> IF item.authors # <<>>
                       THEN Join(FullNames(item.authors), ", ") ELSE NA,
           AuthorsYear |-> CrossrefAuthorsYear(item.authors, pub_year),
           Title |-> Get(item.title, NA),
           Journal |-> Get(item.journal, NA),
           PublicationYear |-> pub_year,
           PublicationDate |-> pub_date,
           Abstract |-> Join(CleanAbstract(item.text), ""),
           DOI |-> doi,
           Language |-> Get(item.language, NA),
           IsAccepted |-> NA,
           IsPublished |-> YesNo(pub_date # NA),
           Type |-> type_val,
           TypeCrossref |-> type_val,
           IndexedIn |-> "Crossref",
           IsOpenAccess |-> IF licensed THEN "Yes" ELSE NA,
           OAStatus |-> IF licensed THEN "License available" ELSE NA,
           DownloadURL |-> Get(item.link, NA),
           CitedByCount |-> Get(item.cited, NA),
           API |-> "crossref"])

\* PyAlexFetcher._process_works: a work without abstract is skipped; w["id"]
\* raises on a work without id
OpenAlexRecord ==
    LET year == IF item.date # <<>> THEN YearOf(item.date) ELSE NA
        is_oa == item.oa = "true"
    IN  Handle("openalex",
          IF item.text = <<>> THEN "skipped"
          ELSE IF item.native = Missing THEN "raised" ELSE "record",
          [ID |-> item.native,
           Authors |-> IF item.authors # <<>>
                       THEN Join(FullNames(item.authors), ", ") ELSE NA,
           AuthorsYear |-> TagByCount(FullNames(item.authors), year,
                                      "N/A " \o year),
           Title |-> Get(item.title, NA),
           Journal |-> Get(item.journal, ""),
           PublicationYear |-> year,
           PublicationDate |-> IF item.date # <<>> THEN Join(item.date, "-") ELSE NA,
           Abstract |-> Join(item.text, ""),
           DOI |-> Get(item.doi, NA),
           Language |-> Get(item.language, NA),
           IsAccepted |-> IF item.status # Missing THEN "True" ELSE NA,
           IsPublished |-> IF item.status # Missing THEN "True" ELSE NA,
           Type |-> Get(item.type, NA),
           TypeCrossref |-> Get(item.type, NA),
           IndexedIn |-> Get(item.indexed, NA),
           IsOpenAccess |-> YesNo(is_oa),
           OAStatus |-> IF item.oa = Missing THEN NA
                        ELSE IF is_oa THEN "gold" ELSE "closed",
           DownloadURL |-> Get(item.link, ""),
           CitedByCount |-> Get(item.cited, NA),
           API |-> "openalex"])

\* PubMedAPI._make_authors_year
PubMedAuthorsYear(authors_list, year) ==
    IF authors_list = <<>> THEN "Unknown " \o year
    ELSE IF Len(authors_list) = 1 THEN LastToken(authors_list[1]) \o " " \o year
    ELSE LastToken(authors_list[1]) \o " et al. " \o year

\* PubMedAPI._parse_pubmed_article: the PMC pdf link, else the DOI resolver
PubMedDownloadUrl(pmc_id, doi) ==
    IF pmc_id # "" THEN "https://www.ncbi.nlm.nih.gov/pmc/articles/PMC" \o pmc_id \o "/pdf/"
    ELSE IF doi # "" THEN "https://doi.org/" \o doi
    ELSE ""

\* PubMedAPI._parse_pubmed_article and _parse_data
PubMedRecord ==
    LET pmid     == Get(item.native, "")
        doi      == Get(item.doi, "")
        pub_year == IF item.date # <<>> THEN YearOf(item.date) ELSE ""
        pmc_id   == IF item.oa = "true" THEN "1" ELSE ""
        is_oa    == pmc_id # ""
    IN  Handle("pubmed", "record",
          [ID |-> IF doi # "" THEN doi ELSE pmid,
           Authors |-> Join(FullNames(item.authors), ", "),
           AuthorsYear |-> PubMedAuthorsYear(item.authors, pub_year),
           Title |-> Get(item.title, ""),
           Journal |-> Get(item.journal, ""),
           PublicationYear |-> pub_year,
           PublicationDate |-> Join(item.date, "-"),
           Abstract |-> Join(item.text, ""),
           DOI |-> doi,
           Language |-> Get(item.language, ""),
           IsAccepted |-> NA,
           IsPublished |-> YesNo(Get(item.status, "") \in
                                    {"epublish", "ppublish", "pubmed", "medline"}),
           Type |-> "article",
           TypeCrossref |-> NA,
           IndexedIn |-> "PubMed",
           IsOpenAccess |-> YesNo(is_oa),
           OAStatus |-> IF is_oa THEN "PMC - Possibly OA" ELSE NA,
           DownloadURL |-> PubMedDownloadUrl(pmc_id, doi),
           CitedByCount |-> "0",
           API |-> "pubmed"])

\* ScopusFetcher.fetch_references (dc:creator names the first author)
ScopusRecord ==
    LET authors == IF item.authors # <<>> THEN FullName(item.authors[1]) ELSE NA
        cover_date == IF item.date # <<>> THEN Join(item.date, "-") ELSE NA
        publication_year == IF cover_date # NA THEN YearOf(item.date) ELSE NA
        journal == Get(item.journal, NA)
        first_author == IF authors # NA THEN authors ELSE "unknown"
    IN  Handle("scopus", "record",
          [ID |-> Get(item.native, NA),
           Authors |-> authors,
           AuthorsYear |-> first_author \o " " \o publication_year,
           Title |-> Get(item.title, NA),
           Journal |-> journal,
           PublicationYear |-> publication_year,
           PublicationDate |-> cover_date,
           Abstract |-> IF item.text # <<>> THEN Join(item.text, "") ELSE NA,
           DOI |-> Get(item.doi, NA),
           Language |-> NA,
           IsAccepted |-> NA,
           IsPublished |-> YesNo(journal # NA),
           Type |-> "Scopus",
           TypeCrossref |-> NA,
           IndexedIn |-> "Scopus",
           IsOpenAccess |-> NA,
           OAStatus |-> NA,
           DownloadURL |-> NA,
           CitedByCount |-> Get(item.cited, NA),
           API |-> "scopus"])

\* SpringerNature._format_authors_year (a creator rendered without comma is
\* taken whole)
SpringerAuthorsYear(creators, year) ==
    TagByCount(FullNames(creators), year, year)

\* SpringerNature.process_data
SpringerRecord ==
    LET pub_date == IF item.date # <<>> THEN Join(item.date, "-") ELSE NA
        is_oa == Get(item.oa, "false") = "true"
    IN  Handle("springernature", "record",
          [ID |-> Get(item.doi, NA),
           Authors |-> IF item.authors # <<>>
                       THEN Join(FullNames(item.authors), ", ") ELSE NA,
           AuthorsYear |-> IF pub_date # NA
                           THEN SpringerAuthorsYear(item.authors, YearOf(item.date))
                           ELSE NA,
           Title |-> Get(item.title, NA),
           Journal |-> Get(item.journal, NA),
           PublicationYear |-> IF pub_date # NA THEN YearOf(item.date) ELSE NA,
           PublicationDate |-> pub_date,
           Abstract |-> IF item.text # <<>> THEN Join(item.text, "") ELSE NA,
           DOI |-> Get(item.doi, NA),
           Language |-> Get(item.language, NA),
           IsAccepted |-> NA,
           IsPublished |-> NA,
           Type |-> Get(item.type, NA),
           TypeCrossref |-> Get(item.type, NA),
           IndexedIn |-> "SpringerNature",
           IsOpenAccess |-> YesNo(is_oa),
           OAStatus |-> NA,
           DownloadURL |-> Get(item.link, NA),
           CitedByCount |-> NA,
           API |-> "springernature"])

\* PlosAPI.process_data (the document's id is its DOI)
PlosRecord ==
    LET article_id == Get(item.doi, NA)
        pub_year == IF item.date # <<>> THEN YearOf(item.date) ELSE NA
        article_type == Get(item.type, NA)
    IN  Handle("plos", "record",
          [ID |-> article_id,
           Authors |-> IF item.authors # <<>>
                       THEN Join(FullNames(item.authors), ", ") ELSE NA,
           AuthorsYear |-> TagByCount(LastTokens(item.authors), pub_year,
                                      "N/A " \o pub_year),
           Title |-> Get(item.title, NA),
           Journal |-> Get(item.journal, NA),
           PublicationYear |-> pub_year,
           PublicationDate |-> IF item.date # <<>> THEN Join(item.date, "-") ELSE NA,
           Abstract |-> Join(Strip(item.text), ""),
           DOI |-> article_id,
           Language |-> NA,
           IsAccepted |-> NA,
           IsPublished |-> "Yes",
           Type |-> article_type,
           TypeCrossref |-> article_type,
           IndexedIn |-> "PLOS",
           IsOpenAccess |-> "Yes",
           OAStatus |-> "PLOS Open Access",
           DownloadURL |-> NA,
           CitedByCount |-> NA,
           API |-> "plos"])

\* the 'Authors Year' of IeeeXplore and ScholarClient: the first author's
\* last word and the year
FirstAuthorYear(authors, authors_str, year) ==
    IF authors_str # "" /\ year # NA
    THEN (IF authors # <<>> THEN LastToken(authors[1]) ELSE NA) \o " " \o year
    ELSE "N/A " \o year

\* IeeeXplore.fetch_references: for an article without DOI the default of
\* art.get('article_number', ...) reads the undefined name `idx`
IeeeRecord ==
    LET authors_str == IF item.authors # <<>>
                       THEN Join(FullNames(item.authors), ", ") ELSE NA
        year == IF item.date # <<>> THEN YearOf(item.date) ELSE NA
        doi  == Get(item.doi, "")
    IN  Handle("ieee", IF doi # "" THEN "record" ELSE "raised",
          [ID |-> doi,
           Authors |-> authors_str,
           AuthorsYear |-> FirstAuthorYear(item.authors, authors_str, year),
           Title |-> Get(item.title, NA),
           Journal |-> Get(item.journal, NA),
           PublicationYear |-> year,
           PublicationDate |-> IF item.date # <<>> THEN Join(item.date, "-") ELSE year,
           Abstract |-> IF item.text # <<>> THEN Join(item.text, "") ELSE NA,
           DOI |-> doi,
           Language |-> Get(item.language, NA),
           IsAccepted |-> NA,
           IsPublished |-> YesNo(year # NA),
           Type |-> Get(item.type, NA),
           TypeCrossref |-> Get(item.type, NA),
           IndexedIn |-> "IEEE Xplore",
           IsOpenAccess |-> NA,
           OAStatus |-> NA,
           DownloadURL |-> Get(item.link, ""),
           CitedByCount |-> Get(item.cited, NA),
           API |-> "ieee"])

\* ScholarClient.search: the keys of pub['bib'] are read with [], which
\* raises when one is absent; `url` keeps the value an earlier publication
\* gave it when pub has no 'pub_url', and is unbound when none did
ScholarRecord ==
    LET have == /\ item.title # Missing /\ item.date # <<>> /\ item.text # <<>>
                /\ (item.link # Missing \/ item.stale # Missing)
        authors_str == Join(FullNames(item.authors), ", ")
        year == YearOf(item.date)
    IN  Handle("scholar", IF have THEN "record" ELSE "raised",
          [Authors |-> authors_str,
           AuthorsYear |-> FirstAuthorYear(item.authors, authors_str, year),
           Title |-> item.title,
           Journal |-> item.journal,
           PublicationYear |-> year,
           PublicationDate |-> year,
           Abstract |-> Join(item.text, ""),
           Language |-> NA,
           IsAccepted |-> NA,
           IsPublished |-> YesNo(year # NA),
           Type |-> "scholar",
           TypeCrossref |-> NA,
           IndexedIn |-> "Google Scholar",
           IsOpenAccess |-> NA,
           OAStatus |-> NA,
           DownloadURL |-> IF item.link # Missing THEN item.link ELSE item.stale,
           CitedByCount |-> item.cited,
           API |-> "scholar"])

NextRecord ==
    \/ ArxivRecord
    \/ CrossrefRecord
    \/ OpenAlexRecord
    \/ PubMedRecord
    \/ ScopusRecord
    \/ SpringerRecord
    \/ PlosRecord
    \/ IeeeRecord
    \/ ScholarRecord

RecordInit == InitRecord /\ IdleSearch /\ IdleFetch /\ IdleClean /\ IdleLater

SpecRecord == RecordInit /\ [][NextRecord]_vars

(***************************************************************************)
(* PubMedAPI.search (clients/pubmed_api.py): the ESearch requests that     *)
(* resolve the PMIDs, the EFetch requests that bring their details, and    *)
(* the @retry_on_fail around each helper.  The service holds the PMIDs     *)
(* 1..id_count for the query and serves them in that order.                *)
(***************************************************************************)
\* search, fetch-all mode: chunk_size = 200
chunk_size == 200

\* _fetch_all_pmids: step = 10000
step == 10000

\* search, limited mode: `if retmax is None: retmax = 10`
RetmaxFallback == 10

\* how many PMIDs the service holds, around the batch size
IdCounts == {0, 1, chunk_size, chunk_size + 1, 2 * chunk_size + 1}

\* the retmax arguments tried (0: None)
RetmaxOptions == {0, chunk_size, chunk_size + 1}

\* how one request to the service can fail: a 503 status, which
\* raise_for_status turns into an HTTPError
PubMedFailures == {"503"}

\* the <Id> elements of an ESearch response for retstart / retmax
EsearchIds(retstart, n) ==
    [k \in 1..Max(0, Min(n, id_count - retstart)) |-> retstart + k]

\* the retmax the next _fetch_pmids call is made with
AskedRetmax ==
    IF fetch_all THEN step
    ELSE IF retmax = 0 THEN RetmaxFallback ELSE retmax

\* the PMIDs the next _fetch_details call is made with
Subset ==
    IF fetch_all
    THEN SubSeq(all_pmids, chunk_start + 1, Min(chunk_start + chunk_size, Len(all_pmids)))
    ELSE all_pmids

\* the request the call makes next
NextRequest ==
    IF pstate = "count" THEN [kind |-> "count", ids |-> <<>>, retstart |-> 0, retmax |-> 0]
    ELSE IF pstate = "pmids"
    THEN [kind |-> "esearch", ids |-> <<>>, retstart |-> current_start, retmax |-> AskedRetmax]
    ELSE [kind |-> "efetch", ids |-> Subset, retstart |-> 0, retmax |-> 0]

Sent(outcome) ==
    Append(requests, [kind |-> NextRequest.kind, ids |-> NextRequest.ids,
                      retstart |-> NextRequest.retstart, retmax |-> NextRequest.retmax,
                      outcome |-> outcome])

pubmedInputs == <<fetch_all, retmax, id_count>>

InitPubMed ==
    /\ fetch_all \in BOOLEAN
    /\ retmax \in RetmaxOptions
    /\ id_count \in IdCounts
    /\ total_count = 0 /\ current_start = 0 /\ all_pmids = <<>> /\ chunk_start = 0
    /\ raw_entries = <<>> /\ requests = <<>>
    /\ tries = 0 /\ restarts = 0 /\ pm_faults = 0
    /\ pstate = IF fetch_all THEN "count" ELSE "pmids"

\* where search goes once the PMIDs are resolved: an empty list gives an
\* empty result without any EFetch request
AfterPmids(pmids) == IF pmids = <<>> THEN "returned" ELSE "details"

\* _get_total_count answers; _fetch_all_pmids starts
GetTotalCount ==
    /\ pstate = "count"
    /\ requests' = Sent("ok")
    /\ total_count' = id_count
    /\ tries' = 0
    /\ pstate' = IF id_count > 0 THEN "pmids" ELSE AfterPmids(<<>>)
    /\ UNCHANGED <<pubmedInputs, current_start, all_pmids, chunk_start, raw_entries,
                   restarts, pm_faults,
                   otherThanPubMed>>

\* _fetch_pmids answers, called by search (limited mode) or by the loop of
\* _fetch_all_pmids
FetchPmids ==
    /\ pstate = "pmids"
    /\ requests' = Sent("ok")
    /\ tries' = 0
    /\ LET pmid_batch == EsearchIds(current_start, AskedRetmax)
       IN  IF ~fetch_all
           THEN /\ all_pmids' = pmid_batch
                /\ pstate' = AfterPmids(pmid_batch)
                /\ UNCHANGED current_start
           ELSE IF pmid_batch = <<>>
           THEN /\ pstate' = AfterPmids(all_pmids)
                /\ UNCHANGED <<all_pmids, current_start>>
           ELSE /\ all_pmids' = all_pmids \o pmid_batch
                /\ current_start' = current_start + step
                /\ pstate' = IF Len(pmid_batch) < step \/ current_start' >= total_count
                             THEN AfterPmids(all_pmids')
                             ELSE "pmids"
    /\ UNCHANGED <<pubmedInputs, total_count, chunk_start, raw_entries, restarts, pm_faults,
                   otherThanPubMed>>

\* _fetch_details answers with one entry per PMID asked for
FetchDetails ==
    /\ pstate = "details"
    /\ requests' = Sent("ok")
    /\ tries' = 0
    /\ raw_entries' = raw_entries \o Subset
    /\ chunk_start' = chunk_start + Len(Subset)
    /\ pstate' = IF chunk_start' >= Len(all_pmids) THEN "returned" ELSE "details"
    /\ UNCHANGED <<pubmedInputs, total_count, current_start, all_pmids, restarts, pm_faults,
                   otherThanPubMed>>

\* a request fails: the helper's own retry_on_fail calls it again, or the
\* helper raises; an exception out of _fetch_pmids inside _fetch_all_pmids
\* makes that helper's retry_on_fail run it again from its first line
RequestFails ==
    /\ pstate \in {"count", "pmids", "details"}
    /\ pm_faults < MaxPmFaults
    /\ \E failure \in PubMedFailures :
          LET exc == Raises("pubmed", failure)
          IN  /\ requests' = Sent(failure)
              /\ pm_faults' = pm_faults + 1
              /\ IF RetryOnFail(exc, tries + 1)
                 THEN /\ tries' = tries + 1
                      /\ UNCHANGED <<restarts, current_start, all_pmids, pstate>>
                 ELSE IF pstate = "pmids" /\ fetch_all /\ RetryOnFail(exc, restarts + 1)
                 THEN /\ restarts' = restarts + 1
                      /\ tries' = 0
                      /\ current_start' = 0
                      /\ all_pmids' = <<>>
                      /\ UNCHANGED pstate
                 ELSE /\ pstate' = "raised"
                      /\ UNCHANGED <<tries, restarts, current_start, all_pmids>>
    /\ UNCHANGED <<pubmedInputs, total_count, chunk_start, raw_entries,
                   otherThanPubMed>>

NextPubMed ==
    \/ GetTotalCount
    \/ FetchPmids
    \/ FetchDetails
    \/ RequestFails

PubMedInit ==
    /\ InitPubMed /\ IdleRetrieval
    /\ IdlePair /\ IdlePretriage /\ IdleTriage /\ IdleOrchestrator /\ IdleChunk /\ IdleScholar

SpecPubMed == PubMedInit /\ [][NextPubMed]_vars


(***************************************************************************)
(* Two overlapped calls of PubMedAPI.search on one instance                *)
(* (clients/pubmed_api.py).  search stores its date filters on the         *)
(* instance (lines 97-101) and _fetch_pmids reads them back when it builds *)
(* the ESearch parameters (lines 220-225); the calls interleave line by    *)
(* line.                                                                   *)
(***************************************************************************)
Callers == {"c1", "c2"}

\* the query of each call
TermOf(c) == IF c = "c1" THEN "qA" ELSE "qB"

\* the from_date / to_date arguments tried, as years (0: None)
PairFromOptions == {0, 2021}
PairToOptions == {0, 2023}

\* the articles the service holds
Corpus == [term : {"qA", "qB"}, year : {2020, 2022, 2024}]

\* the ESearch parameters before the date filters are added
NoFilter(c) == [term |-> TermOf(c), datetype |-> "", mindate |-> 0, maxdate |-> 0]

\* what the service answers to an ESearch request followed by the EFetch of
\* its PMIDs: the articles of the term within the date bounds sent
Answer(params) ==
    { a \in Corpus : /\ a.term = params.term
                     /\ params.mindate # 0 => a.year >= params.mindate
                     /\ params.maxdate # 0 => a.year <= params.maxdate }

InitPair ==
    /\ datetype = "" /\ mindate = 0 /\ maxdate = 0
    /\ args \in [Callers -> [from_date : PairFromOptions, to_date : PairToOptions]]
    /\ line = [c \in Callers |-> 97]
    /\ params_esearch = [c \in Callers |-> NoFilter(c)]
    /\ answer = [c \in Callers |-> <<>>]

\* one call moves on to another line
Goto(c, n) == line' = [line EXCEPT ![c] = n]

\* search, lines 97-99: self.datetype = None, then 'pdat' when a bound is given
StoreNoDatetype(c) ==
    /\ line[c] = 97
    /\ datetype' = ""
    /\ Goto(c, IF args[c].from_date # 0 \/ args[c].to_date # 0 THEN 99 ELSE 100)
    /\ UNCHANGED <<mindate, maxdate, args, params_esearch, answer, otherThanPair>>

StoreDatetype(c) ==
    /\ line[c] = 99
    /\ datetype' = "pdat"
    /\ Goto(c, 100)
    /\ UNCHANGED <<mindate, maxdate, args, params_esearch, answer, otherThanPair>>

\* search, line 100: self.mindate = from_date
StoreMindate(c) ==
    /\ line[c] = 100
    /\ mindate' = args[c].from_date
    /\ Goto(c, 101)
    /\ UNCHANGED <<datetype, maxdate, args, params_esearch, answer, otherThanPair>>

\* search, line 101: self.maxdate = to_date; _fetch_pmids is entered
StoreMaxdate(c) ==
    /\ line[c] = 101
    /\ maxdate' = args[c].to_date
    /\ Goto(c, 220)
    /\ UNCHANGED <<datetype, mindate, args, params_esearch, answer, otherThanPair>>

\* _fetch_pmids, lines 220, 222, 224: `if getattr(self, ..., None):`
TestFilter(c) ==
    /\ line[c] \in {220, 222, 224}
    /\ LET set == IF line[c] = 220 THEN datetype # ""
                  ELSE IF line[c] = 222 THEN mindate # 0
                  ELSE maxdate # 0
       IN  Goto(c, IF set THEN line[c] + 1 ELSE IF line[c] = 224 THEN 229 ELSE line[c] + 2)
    /\ UNCHANGED <<datetype, mindate, maxdate, args, params_esearch, answer, otherThanPair>>

\* _fetch_pmids, lines 221, 223, 225: params_esearch[...] = self....
CopyFilter(c) ==
    /\ line[c] \in {221, 223, 225}
    /\ params_esearch' =
          [params_esearch EXCEPT ![c] =
              IF line[c] = 221 THEN [@ EXCEPT !.datetype = datetype]
              ELSE IF line[c] = 223 THEN [@ EXCEPT !.mindate = mindate]
              ELSE [@ EXCEPT !.maxdate = maxdate]]
    /\ Goto(c, IF line[c] = 225 THEN 229 ELSE line[c] + 1)
    /\ UNCHANGED <<datetype, mindate, maxdate, args, answer, otherThanPair>>

\* _fetch_pmids, line 229, and the EFetch of what it returned: the call
\* returns the articles its request selected
SendEsearch(c) ==
    /\ line[c] = 229
    /\ answer' = [answer EXCEPT ![c] = Answer(params_esearch[c])]
    /\ Goto(c, 126)
    /\ UNCHANGED <<datetype, mindate, maxdate, args, params_esearch, otherThanPair>>

NextPair ==
    \/ \E c \in Callers : StoreNoDatetype(c)
    \/ \E c \in Callers : StoreDatetype(c)
    \/ \E c \in Callers : StoreMindate(c)
    \/ \E c \in Callers : StoreMaxdate(c)
    \/ \E c \in Callers : TestFilter(c)
    \/ \E c \in Callers : CopyFilter(c)
    \/ \E c \in Callers : SendEsearch(c)

PairInit ==
    /\ InitPair /\ IdleRetrieval
    /\ IdlePubMed /\ IdlePretriage /\ IdleTriage /\ IdleOrchestrator /\ IdleChunk /\ IdleScholar

SpecPair == PairInit /\ [][NextPair]_vars


(***************************************************************************)
(* pretriage_records (pretriage.py): the embeddings of the key terms and   *)
(* of the records' texts, the cosine similarities and the filter loop.     *)
(* Similarities are in tenths; a record carries the similarity of its text *)
(* to each key term.                                                       *)
(***************************************************************************)
\* _create_embeddings: input=inputs_list[:500]
EMBED_BATCH == 500

\* incl_threshold: float = 0.3, excl_threshold: float = 0.3
incl_threshold == 3
excl_threshold == 3

\* how many records are given, around the size of one embedding request
RecordCounts == {1, 2, EMBED_BATCH - 1, EMBED_BATCH, EMBED_BATCH + 1}

\* the similarities the records' texts have, one row after another: to the
\* second inclusion term (one tenth less to the first) and to the exclusion term
SimTable == << [a |-> 4, b |-> 3], [a |-> 3, b |-> 3], [a |-> 4, b |-> 4], [a |-> 5, b |-> 0] >>

\* where in SimTable the first record starts
Shifts == 0..3

RecordAt(i, shift) ==
    LET row == SimTable[((i + shift) % Len(SimTable)) + 1]
    IN  [id |-> i, incl |-> <<row.a - 1, row.a>>, excl |-> <<row.b>>]

\* cosine_similarity(txt_emb, key_emb).max(axis=1) for one text
MaxSim(sims, keys) ==
    CHOOSE m \in {sims[k] : k \in 1..keys} : \A k \in 1..keys : sims[k] <= m

InitPretriage ==
    /\ inclusion_keys \in 0..2
    /\ exclusion_keys \in 0..1
    /\ has_key \in BOOLEAN
    /\ client_ok \in BOOLEAN
    /\ \E n \in RecordCounts, shift \in Shifts :
          input_records = [i \in 1..n |-> RecordAt(i, shift)]
    /\ sim_incl = <<>> /\ sim_excl = <<>> /\ filtered = <<>> /\ zi = 0
    /\ tstate = "called"

pretriageInputs == <<input_records, inclusion_keys, exclusion_keys, has_key, client_ok>>

\* `if not inclusion_keys: return records`
ReturnUnfiltered ==
    /\ tstate = "called"
    /\ inclusion_keys = 0
    /\ filtered' = input_records
    /\ tstate' = "returned"
    /\ UNCHANGED <<pretriageInputs, sim_incl, sim_excl, zi, otherThanPretriage>>

\* no OPENAI_API_KEY (RuntimeError), or client.embeddings.create raises and
\* the fallback on openai.Embedding.create raises in its turn
PretriageRaises ==
    /\ tstate = "called"
    /\ inclusion_keys > 0
    /\ ~has_key \/ ~client_ok
    /\ tstate' = "raised"
    /\ UNCHANGED <<pretriageInputs, sim_incl, sim_excl, filtered, zi, otherThanPretriage>>

\* the texts _create_embeddings returns an embedding for
Embedded(inputs_list) == SubSeq(inputs_list, 1, Min(Len(inputs_list), EMBED_BATCH))

\* lines 98-127: the texts are embedded and scored against the key terms
EmbedAndScore ==
    /\ tstate = "called"
    /\ inclusion_keys > 0
    /\ has_key /\ client_ok
    /\ LET txt_emb == Embedded(input_records)
       IN  /\ sim_incl' = [i \in 1..Len(txt_emb) |-> MaxSim(txt_emb[i].incl, inclusion_keys)]
           /\ sim_excl' = [i \in 1..Len(txt_emb) |->
                             IF exclusion_keys > 0
                             THEN MaxSim(txt_emb[i].excl, exclusion_keys)
                             ELSE 0]
    /\ tstate' = "scored"
    /\ UNCHANGED <<pretriageInputs, filtered, zi, otherThanPretriage>>

\* how many triples zip(records, sim_incl, sim_excl) yields
ZipLen == Min(Len(input_records), Min(Len(sim_incl), Len(sim_excl)))

\* one pass of the filter loop
FilterStep ==
    /\ tstate = "scored"
    /\ zi < ZipLen
    /\ LET rec == input_records[zi + 1]
           score_i == sim_incl[zi + 1]
           score_e == sim_excl[zi + 1]
       IN  filtered' = IF score_i >= incl_threshold /\ score_e <= excl_threshold
                       THEN Append(filtered, [id |-> rec.id,
                                              score_inclusion |-> score_i,
                                              score_exclusion |-> score_e])
                       ELSE filtered
    /\ zi' = zi + 1
    /\ UNCHANGED <<pretriageInputs, sim_incl, sim_excl, tstate, otherThanPretriage>>

\* the zip is exhausted: `return filtered`
ReturnFiltered ==
    /\ tstate = "scored"
    /\ zi = ZipLen
    /\ tstate' = "returned"
    /\ UNCHANGED <<pretriageInputs, sim_incl, sim_excl, filtered, zi, otherThanPretriage>>

NextPretriage ==
    \/ ReturnUnfiltered
    \/ PretriageRaises
    \/ EmbedAndScore
    \/ FilterStep
    \/ ReturnFiltered

PretriageInit ==
    /\ InitPretriage /\ IdleRetrieval
    /\ IdlePubMed /\ IdlePair /\ IdleTriage /\ IdleOrchestrator /\ IdleChunk /\ IdleScholar

SpecPretriage == PretriageInit /\ [][NextPretriage]_vars


(***************************************************************************)
(* The triage command (cli.py): the optional semantic pre-triage, then the *)
(* simple filter when no OPENAI_API_KEY is set or the LLM classification   *)
(* of each record when one is.                                             *)
(***************************************************************************)
\* what rec.get('Abstract') can be once pd.read_csv has loaded the rows: a
\* string (its characters), a float (NaN, an empty cell), or None
AbstractValues ==
    { [kind |-> "float", chars |-> <<>>],
      [kind |-> "None", chars |-> <<>>],
      [kind |-> "str", chars |-> <<" ">>],
      [kind |-> "str", chars |-> <<"x">>],
      [kind |-> "str", chars |-> <<" ", "x", " ">>],
      [kind |-> "str", chars |-> <<" ", "N", "/", "A">>],
      [kind |-> "str", chars |-> <<"n", "/", "a", " ">>],
      [kind |-> "str", chars |-> <<"N", "/", "A", "x">>] }

\* str.upper(), character by character
UpperChar(ch) ==
    IF ch = "n" THEN "N" ELSE IF ch = "a" THEN "A" ELSE IF ch = "x" THEN "X" ELSE ch

Upper(s) == [k \in 1..Len(s) |-> UpperChar(s[k])]

\* the rows of a CSV, numbered
Rows(abstracts) == [k \in 1..Len(abstracts) |-> [id |-> k, Abstract |-> abstracts[k]]]

\* the sub-list of recs at the positions kept
SubList(recs, kept) == SelectSeq(recs, LAMBDA rec : rec.id \in kept)

InitTriage ==
    /\ \E abstracts \in SeqUpTo(AbstractValues, MaxTriage) :
          /\ tri_input = Rows(abstracts)
          /\ tri_records = Rows(abstracts)
    /\ incl_keys \in BOOLEAN
    /\ api_key \in BOOLEAN
    /\ pre_failed = FALSE
    /\ ci = 0 /\ included = <<>> /\ llm_calls = 0 /\ output_csv = <<>>
    /\ gstate = "loaded"

triageInputs == <<tri_input, incl_keys, api_key>>

\* `if incl_keys:` is false
SkipPretriage ==
    /\ gstate = "loaded"
    /\ ~incl_keys
    /\ gstate' = "pretriaged"
    /\ UNCHANGED <<triageInputs, tri_records, pre_failed, ci, included, llm_calls,
                   output_csv, otherThanTriage>>

\* pretriage_records raises (always without OPENAI_API_KEY, pretriage.py:37-39):
\* the exception is caught and reported, records is not assigned
PretriageFails ==
    /\ gstate = "loaded"
    /\ incl_keys
    /\ pre_failed' = TRUE
    /\ gstate' = "pretriaged"
    /\ UNCHANGED <<triageInputs, tri_records, ci, included, llm_calls, output_csv,
                   otherThanTriage>>

\* pretriage_records returns some of the records, in order
PretriageFilters ==
    /\ gstate = "loaded"
    /\ incl_keys /\ api_key
    /\ \E kept \in SUBSET (1..Len(tri_records)) :
          tri_records' = SubList(tri_records, kept)
    /\ gstate' = "pretriaged"
    /\ UNCHANGED <<triageInputs, pre_failed, ci, included, llm_calls, output_csv,
                   otherThanTriage>>

\* the simple filter pretends every string is an abstract
KeepsAnyString(rec) == rec.Abstract.kind = "str"

\* the simple filter of lines 192-197
Keeps(rec) ==
    /\ rec.Abstract.kind = "str"
    /\ Strip(rec.Abstract.chars) # <<>>
    /\ Upper(Strip(rec.Abstract.chars)) # <<"N", "/", "A">>

\* `if not api_key:` the filtered records are written and the command returns
SimpleFilter ==
    /\ gstate = "pretriaged"
    /\ ~api_key
    /\ output_csv' = SelectSeq(tri_records, Keeps)
    /\ gstate' = "saved"
    /\ UNCHANGED <<triageInputs, tri_records, pre_failed, ci, included, llm_calls,
                   otherThanTriage>>

\* classify_record for the next record: the LLM is asked, and the record is
\* included, excluded, or the call fails and is reported
ClassifyRecord ==
    /\ gstate = "pretriaged"
    /\ api_key
    /\ ci < Len(tri_records)
    /\ llm_calls' = llm_calls + 1
    /\ \E verdict \in {"include", "exclude", "error"} :
          included' = IF verdict = "include"
                      THEN Append(included, tri_records[ci + 1])
                      ELSE included
    /\ ci' = ci + 1
    /\ UNCHANGED <<triageInputs, tri_records, pre_failed, output_csv, gstate,
                   otherThanTriage>>

\* every record is classified: the included ones are written
SaveIncluded ==
    /\ gstate = "pretriaged"
    /\ api_key
    /\ ci = Len(tri_records)
    /\ output_csv' = included
    /\ gstate' = "saved"
    /\ UNCHANGED <<triageInputs, tri_records, pre_failed, ci, included, llm_calls,
                   otherThanTriage>>

NextTriage ==
    \/ SkipPretriage
    \/ PretriageFails
    \/ PretriageFilters
    \/ SimpleFilter
    \/ ClassifyRecord
    \/ SaveIncluded

TriageInit ==
    /\ InitTriage /\ IdleRetrieval
    /\ IdlePubMed /\ IdlePair /\ IdlePretriage /\ IdleOrchestrator /\ IdleChunk /\ IdleScholar

SpecTriage == TriageInit /\ [][NextTriage]_vars


(***************************************************************************)
(* The orchestrator (orchestrator.py): main runs each stage as a           *)
(* subprocess with check=True and reads some of the files the stages wrote *)
(* before it goes on.                                                      *)
(***************************************************************************)
\* the `revsys` sub-commands main runs, in the order of its statements
STAGES == << "define-directives", "search", "triage", "review", "fetch-fulltext",
             "review-fulltext", "suggest-topics", "write-topics", "polish" >>

\* the exit statuses a stage can end with
ExitCodes == {0, 1, 2}

\* the stages whose output main loads right after them: json.load of the
\* directives, pd.read_csv of the search and triage results
LoadsOutput == {"define-directives", "search", "triage"}

\* the date options main can be given
DateOptions == {"--from-date", "--to-date"}

InitOrchestrator ==
    /\ given \in SUBSET DateOptions
    /\ started = <<>> /\ exits = <<>> /\ shown = <<>>
    /\ ostate = "ready"

\* the stage that is running or has just exited
Current == STAGES[Len(started)]

\* the command of the n-th stage: only `search` is passed the date options
Command(n) ==
    [stage |-> STAGES[n], options |-> IF STAGES[n] = "search" THEN given ELSE {}]

\* main announces the next stage and calls subprocess.run
StartStage ==
    /\ ostate = "ready"
    /\ Len(started) < Len(STAGES)
    /\ shown' = Append(shown, [msg |-> "starting", stage |-> STAGES[Len(started) + 1]])
    /\ started' = Append(started, Command(Len(started) + 1))
    /\ ostate' = "running"
    /\ UNCHANGED <<given, exits, otherThanOrchestrator>>

\* subprocess.run without check: the exit status is not looked at
StageExitsUnchecked ==
    /\ ostate = "running"
    /\ \E code \in ExitCodes : exits' = Append(exits, code)
    /\ ostate' = "exited"
    /\ UNCHANGED <<given, started, shown, otherThanOrchestrator>>

\* the stage exits; check=True raises CalledProcessError on a non-zero
\* status, which ends main
StageExits ==
    /\ ostate = "running"
    /\ \E code \in ExitCodes :
          /\ exits' = Append(exits, code)
          /\ ostate' = IF code = 0 THEN "exited" ELSE "failed"
    /\ UNCHANGED <<given, started, shown, otherThanOrchestrator>>

\* the file the stage was to write cannot be loaded: the exception ends main
LoadFails ==
    /\ ostate = "exited"
    /\ Current \in LoadsOutput
    /\ ostate' = "failed"
    /\ UNCHANGED <<given, started, exits, shown, otherThanOrchestrator>>

\* main reports the stage's result and goes on
StageDone ==
    /\ ostate = "exited"
    /\ shown' = Append(shown, [msg |-> "done", stage |-> Current])
    /\ ostate' = "ready"
    /\ UNCHANGED <<given, started, exits, otherThanOrchestrator>>

\* line 152: the completion message
Finish ==
    /\ ostate = "ready"
    /\ Len(started) = Len(STAGES)
    /\ shown' = Append(shown, [msg |-> "finished", stage |-> NA])
    /\ ostate' = "finished"
    /\ UNCHANGED <<given, started, exits, otherThanOrchestrator>>

NextOrchestrator ==
    \/ StartStage
    \/ StageExits
    \/ LoadFails
    \/ StageDone
    \/ Finish

OrchestratorInit ==
    /\ InitOrchestrator /\ IdleRetrieval
    /\ IdlePubMed /\ IdlePair /\ IdlePretriage /\ IdleTriage /\ IdleChunk /\ IdleScholar

SpecOrchestrator == OrchestratorInit /\ [][NextOrchestrator]_vars


(***************************************************************************)
(* chunk_text (rag.py): the text is cut into chunks of chunk_size          *)
(* characters, each starting `overlap` characters before the end of the    *)
(* one before it.                                                          *)
(***************************************************************************)
\* how many chunks of a call are kept: more than a call whose start
\* advances can make of a text of MaxText characters
ChunkCap == MaxText + 1

\* the lowest start that is told apart: from there down every chunk is
\* empty and its end is short of the end of the text
StartFloor == 0 - (MaxText + MaxChunkSize + MaxOverlap)

\* text[a:b], with Python's reading of negative and over-long indices
Slice(s, a, b) ==
    LET from == IF a < 0 THEN Max(0, Len(s) + a) ELSE Min(a, Len(s))
        upto == IF b < 0 THEN Max(0, Len(s) + b) ELSE Min(b, Len(s))
    IN  SubSeq(s, from + 1, upto)

InitChunk ==
    /\ \E n \in 0..MaxText : raw_text = [k \in 1..n |-> k]
    /\ rag_chunk_size \in 1..MaxChunkSize
    /\ overlap \in 0..MaxOverlap
    /\ rag_start = 0
    /\ chunks = <<>>
    /\ beyond = FALSE
    /\ kstate = "called"

chunkInputs == <<raw_text, rag_chunk_size, overlap>>

\* `if not text: return []`
ReturnNoChunks ==
    /\ kstate = "called"
    /\ raw_text = <<>>
    /\ kstate' = "returned"
    /\ UNCHANGED <<chunkInputs, rag_start, chunks, beyond, otherThanChunk>>

\* lines 18-20
EnterLoop ==
    /\ kstate = "called"
    /\ raw_text # <<>>
    /\ kstate' = "looping"
    /\ UNCHANGED <<chunkInputs, rag_start, chunks, beyond, otherThanChunk>>

\* one pass of `while start < length`
CutChunk ==
    /\ kstate = "looping"
    /\ rag_start < Len(raw_text)
    /\ LET end == Min(rag_start + rag_chunk_size, Len(raw_text))
       IN  /\ IF Len(chunks) < ChunkCap
              THEN /\ chunks' = Append(chunks, Slice(raw_text, rag_start, end))
                   /\ UNCHANGED beyond
              ELSE /\ beyond' = ~beyond
                   /\ UNCHANGED chunks
           /\ rag_start' = IF end < Len(raw_text)
                           THEN Max(end - overlap, StartFloor)
                           ELSE end
    /\ UNCHANGED <<chunkInputs, kstate, otherThanChunk>>

\* the loop condition fails: `return chunks`
ReturnChunks ==
    /\ kstate = "looping"
    /\ rag_start >= Len(raw_text)
    /\ kstate' = "returned"
    /\ UNCHANGED <<chunkInputs, rag_start, chunks, beyond, otherThanChunk>>

NextChunk ==
    \/ ReturnNoChunks
    \/ EnterLoop
    \/ CutChunk
    \/ ReturnChunks

ChunkInit ==
    /\ InitChunk /\ IdleRetrieval
    /\ IdlePubMed /\ IdlePair /\ IdlePretriage /\ IdleTriage /\ IdleOrchestrator /\ IdleScholar

\* a call that can take a step takes one
SpecChunk == ChunkInit /\ [][NextChunk]_vars /\ WF_vars(NextChunk)


(***************************************************************************)
(* ScholarClient.search (clients/scholar.py): the loop over the            *)
(* publications scholarly yields, and the local variable `url` it fills    *)
(* the Download URL from.                                                  *)
(***************************************************************************)
\* `url` before its first assignment
Unbound == "<unbound>"

\* the pub_url of the k-th publication, when it has one
UrlOf(k) == "https://pub/" \o ToString(k)

InitScholar ==
    /\ \E n \in 0..MaxPubs : \E has \in [1..n -> BOOLEAN] :
          pubs = [k \in 1..n |-> [id |-> k,
                                  pub_url |-> IF has[k] THEN UrlOf(k) ELSE Missing]]
    /\ scholar_max \in 1..MaxPubs
    /\ idx = 0
    /\ url = Unbound
    /\ scholar_records = <<>>
    /\ sstate = "looping"

\* one pass of the loop: `url = pub['pub_url']` inside try/except-pass, then
\* the record is built with 'Download URL': url
TakePublication ==
    /\ sstate = "looping"
    /\ idx < Len(pubs) /\ idx < scholar_max
    /\ LET pub == pubs[idx + 1]
       IN  /\ url' = IF pub.pub_url # Missing THEN pub.pub_url ELSE url
           /\ IF url' = Unbound
              THEN /\ sstate' = "raised"
                   /\ UNCHANGED scholar_records
              ELSE /\ scholar_records' =
                         Append(scholar_records, [id |-> pub.id, DownloadURL |-> url'])
                   /\ UNCHANGED sstate
    /\ idx' = idx + 1
    /\ UNCHANGED <<pubs, scholar_max, otherThanScholar>>

\* the generator is exhausted or `idx >= max_records`: the frame is returned
ReturnFrame ==
    /\ sstate = "looping"
    /\ idx >= Len(pubs) \/ idx >= scholar_max
    /\ sstate' = "returned"
    /\ UNCHANGED <<pubs, scholar_max, idx, url, scholar_records, otherThanScholar>>

NextScholar ==
    \/ TakePublication
    \/ ReturnFrame

ScholarInit ==
    /\ InitScholar /\ IdleRetrieval
    /\ IdlePubMed /\ IdlePair /\ IdlePretriage /\ IdleTriage /\ IdleOrchestrator /\ IdleChunk

SpecScholar == ScholarInit /\ [][NextScholar]_vars


(***************************************************************************)
(* Properties of the search command.                                       *)
(***************************************************************************)
Last(s) == s[Len(s)]

\* the command has just written `output` for the current df_list
JustSaved == echo # <<>> /\ Last(echo).msg = "Saved"

\* the rows the adapters have returned so far, in invocation order
Concatenated == Flatten([i \in 1..Len(calls) |-> calls[i].df])

FirstWithKey(df, r) == CHOOSE k \in 1..Len(df) :
    /\ SameKey(df[k], r)
    /\ \A j \in 1..(k - 1) : ~SameKey(df[j], r)

\* C1: the saved collection holds no two records with the same (DOI, Title)
\* pair other than ("N/A", "N/A"); the record it holds for such a pair is the
\* first one with that pair in concatenation order, and right after a save
\* every pair of the concatenation is represented.
C1_DedupKeepsFirst ==
    /\ \A i \in 1..Len(result) :
          <<result[i].DOI, result[i].Title>> # <<NA, NA>> =>
             /\ \A j \in 1..Len(result) : j # i => ~SameKey(result[i], result[j])
             /\ \E k \in 1..Len(Concatenated) : SameKey(Concatenated[k], result[i])
             /\ result[i] = Concatenated[FirstWithKey(Concatenated, result[i])]
    /\ JustSaved =>
          \A k \in 1..Len(Concatenated) :
             \E i \in 1..Len(result) : SameKey(result[i], Concatenated[k])

\* a save in which two adapters' rows shared a pair other than ("N/A", "N/A")
C1_Witness ==
    /\ JustSaved
    /\ \E j, k \in 1..Len(Concatenated) :
          /\ j < k
          /\ SameKey(Concatenated[j], Concatenated[k])
          /\ Concatenated[j].DOI # NA
          /\ Concatenated[j].row[1] # Concatenated[k].row[1]
    /\ Len(result) >= 2

\* C2: records whose DOI and Title are both "N/A" are never duplicates of
\* each other: each such row of the concatenated adapter outputs is still in
\* the collection after deduplication.
C2_NAPairsAllKept ==
    JustSaved =>
       \A k \in 1..Len(Concatenated) :
          <<Concatenated[k].DOI, Concatenated[k].Title>> = <<NA, NA>> =>
             \E i \in 1..Len(result) : result[i] = Concatenated[k]

\* the invocations of the run that did not raise (a Crossref frame the
\* command rejects as empty holds no rows)
Returned == {i \in 1..Len(calls) : ~calls[i].raised}

NativeDateSources == {"crossref", "pubmed", "scopus", "springernature", "ieee"}

\* the bound as the source's parameter takes it: a year for Scopus and IEEE,
\* the date for the others
AsRequested(src, date) ==
    IF src \in {"scopus", "ieee"} THEN YearOf(date) ELSE Join(date, "-")

\* C18: the date bounds sent to a source with a native date parameter are
\* the ones the user requested: each bound requested is sent, and a bound
\* not requested is not sent (no date restriction when none was requested).
C18_DateBoundsPassedThrough ==
    \A i \in 1..Len(calls) :
       calls[i].src \in NativeDateSources =>
          /\ calls[i].dates.from = IF from_date # <<>>
                                   THEN AsRequested(calls[i].src, from_date)
                                   ELSE NotSent
          /\ calls[i].dates.to = IF to_date # <<>>
                                 THEN AsRequested(calls[i].src, to_date)
                                 ELSE NotSent

\* C19: for every query of a run, "No records found" is reported for the
\* query if and only if no source returned a record for that query.
C19_NoRecordsIffNone ==
    \A k \in 1..Len(echo) :
       echo[k].msg \in {"Saved", "No records found"} =>
          (echo[k].msg = "No records found"
             <=> \A i \in 1..Len(calls) :
                    calls[i].q = echo[k].q => calls[i].df = <<>>)

\* C20: a source that returns an empty result is handled as normal
\* completion: no error is reported for an invocation that returned without
\* raising.
C20_EmptyIsNotAnError ==
    \A i \in 1..Len(calls) :
       (~calls[i].raised /\ calls[i].df = <<>>) =>
          ~\E k \in 1..Len(echo) :
              /\ echo[k].msg = "Error"
              /\ echo[k].q = calls[i].q
              /\ echo[k].src = calls[i].src

\* C24: for every query and every requested source the command invokes the
\* source's adapter exactly once, and the query it passes is that single
\* query, never the whole list of queries.
C24_SingleQueryPassed ==
    /\ pc = "done" => Len(calls) = Len(query_list) * Len(sources_list)
    /\ \A i \in 1..Len(calls) :
          /\ calls[i].q = ((i - 1) \div Len(sources_list)) + 1
          /\ calls[i].src = sources_list[((i - 1) % Len(sources_list)) + 1]
          /\ calls[i].query = <<query_list[calls[i].q]>>

(***************************************************************************)
(* Properties of the records.                                              *)
(***************************************************************************)
\* the standard columns an adapter copies from one field of the raw item,
\* and whether the item carried no value for that field
Unset ==
    [Title    |-> item.title = Missing,
     Journal  |-> item.journal = Missing,
     Abstract |-> item.text = <<>>,
     DOI      |-> item.doi = Missing]

\* C11: every record has all twenty standard fields, none of them empty or
\* null, and a field the raw item carried no value for holds "N/A".
C11_AllFieldsFilled ==
    rstate = "record" =>
       /\ DOMAIN registro = STANDARD_COLUMNS
       /\ \A c \in STANDARD_COLUMNS : registro[c] # "" /\ registro[c] # Missing
       /\ \A c \in DOMAIN Unset : Unset[c] => registro[c] = NA

\* the raw item carries everything the adapters read other than the DOI
CompleteButDoi ==
    /\ item.native # Missing /\ item.title # Missing /\ item.date # <<>>
    /\ item.text # <<>> /\ item.link # Missing

\* C12: a record's ID is never empty nor the sentinel: it is the DOI when
\* the item has one, else the source-native identifier; and an item without
\* DOI does not make the adapter fail.
C12_IdNeverEmpty ==
    /\ rstate = "record" =>
          /\ registro.ID # "" /\ registro.ID # NA
          /\ item.doi # Missing => registro.ID = item.doi
          /\ (item.doi = Missing /\ item.native # Missing) =>
                registro.ID = item.native
    /\ (item.doi = Missing /\ CompleteButDoi) => rstate # "raised"

\* the tags the rules allow for an author list and a year
AuthorsYearRule(authors, year) ==
    IF authors = <<>> THEN {"Unknown " \o year, year}
    ELSE IF Len(authors) = 1 THEN {LastToken(authors[1]) \o " " \o year}
    ELSE IF Len(authors) = 2
    THEN {LastToken(authors[1]) \o " and " \o LastToken(authors[2]) \o " " \o year}
    ELSE {LastToken(authors[1]) \o " et al. " \o year}

\* C13: in every adapter's record the Authors Year tag is "Unknown {year}"
\* (or the year) for no author, "{LastName} {year}" for one,
\* "{LastName1} and {LastName2} {year}" for two and "{LastName1} et al.
\* {year}" for three or more, LastName being the last word of the name.
C13_AuthorsYearRule ==
    rstate = "record" =>
       registro.AuthorsYear \in
          AuthorsYearRule(item.authors, registro.PublicationYear)

\* C14: cleaning an abstract that was already cleaned returns it unchanged:
\* clean(clean(a)) = clean(a).
C14_CleanIdempotent ==
    cstate = "recleaned" => abstract = CleanAbstract(raw_abstract)

\* the sources whose whole content is open access: the source is the signal
OpenBySource == {"arxiv", "plos"}

\* C15: a record built from an item without open-access signal (no license
\* array, no PubMed-Central id, no open-access flag) has Is Open Access
\* "N/A", never "Yes" or "No".
C15_NoSignalIsNA ==
    (rstate = "record" /\ item.oa = Missing /\ api \notin OpenBySource) =>
       registro.IsOpenAccess = NA

\* the PDF link the source itself gives for the item (Missing: none)
NativePdf ==
    IF api = "pubmed"
    THEN (IF item.oa = "true" THEN PubMedDownloadUrl("1", "") ELSE Missing)
    ELSE IF api \in {"scopus", "plos"} THEN Missing
    ELSE item.link

\* C16: a record's Download URL is the source's PDF link when the item has
\* one, else https://doi.org/{doi} when it has a DOI, else "N/A".
C16_DownloadUrlFallback ==
    rstate = "record" =>
       registro.DownloadURL =
          IF NativePdf # Missing THEN NativePdf
          ELSE IF item.doi # Missing THEN "https://doi.org/" \o item.doi
          ELSE NA

(***************************************************************************)
(* Properties of an adapter invocation.                                    *)
(***************************************************************************)
\* spec 4.1: connection errors, timeouts and 5xx responses are transient
Transient(kind) == kind \in {"conn", "timeout", "503", "500"}

\* the page fetch has given up and its error has left the page function
PageFetchFailed == page_error # "none"

\* C4: a page fetch under @retry_on_fail whose every attempt fails with a
\* transient error is attempted exactly 3 times, never a fourth, and then
\* raises the error of the last attempt.
C4_ThreeAttemptsThenReraise ==
    UsesRetryOnFail(adapter) =>
       /\ attempt <= 3
       /\ (PageFetchFailed /\ \A i \in 1..Len(errs) : Transient(errs[i])) =>
             /\ Len(errs) = 3
             /\ page_error = Raises(adapter, Last(errs))

\* C5: under @retry_on_fail an attempt answered with a 4xx status is the
\* last one: the error is raised at once, in every adapter that uses the
\* policy.
C5_ClientErrorNotRetried ==
    UsesRetryOnFail(adapter) =>
       \A i \in 1..Len(errs) :
          errs[i] = "401" => i = Len(errs) /\ PageFetchFailed

\* C6: in every adapter a page fetch gives up on a connection error, a
\* timeout or a 5xx response only after having been attempted again.
C6_TransientRetried ==
    (PageFetchFailed /\ Transient(Last(errs))) => Len(errs) >= 2

\* the adapter is configured as the search command configures it: the page
\* size and the record limit are both --max-records
AsSearchInvokes == rows = max_records /\ max_records >= 1

\* C7: an adapter invoked as the search command invokes it returns at most
\* max_records records.
C7_AtMostMaxRecords ==
    (AsSearchInvokes /\ fstate = "returned") => Len(all_records) <= max_records

CeilDiv(a, b) == (a + b - 1) \div b

\* C8: a paginated fetch loop makes at most ceil(total_available / page_size)
\* page requests (one request when the result set is empty).
C8_PageRequestsBounded ==
    adapter \in {"arxiv", "crossref", "plos", "scopus", "springernature"} =>
       Len(pages) <= Max(1, CeilDiv(total_available, EffectivePage))

\* C9: an adapter whose page fetch failed never returns normally.
C9_FetchErrorRaised ==
    fstate = "returned" => ~PageFetchFailed

Range(f) == {f[i] : i \in DOMAIN f}

\* the year is neither below the first year asked for nor above the last
WithinAskedYears(y) ==
    /\ start_year = 0 \/ y >= start_year
    /\ end_year = 0 \/ y <= end_year

\* the entries of the pages processed so far
EntriesSeen == UNION {Range(pages[p].items) : p \in 1..Len(pages)}

\* C17: in the arXiv adapter an entry published before start_year or after
\* end_year is never in the output and never counts toward total_limit: the
\* output holds only entries within the years asked for, `collected` is the
\* number of entries in the output, and while the limit is not reached every
\* entry seen within the years asked for is in the output.
C17_ArxivYearFilter ==
    adapter = "arxiv" =>
       /\ \A i \in 1..Len(all_records) : WithinAskedYears(item_year[all_records[i]])
       /\ collected = Len(all_records)
       /\ max_records # 0 => collected <= max_records
       /\ (max_records = 0 \/ collected < max_records) =>
             \A e \in EntriesSeen :
                WithinAskedYears(item_year[e]) => e \in Range(all_records)

\* an arXiv invocation that skipped an entry outside the years asked for
\* and then went on to fill its limit with later entries
C17_Witness ==
    /\ adapter = "arxiv"
    /\ fstate = "returned"
    /\ max_records >= 2
    /\ collected = max_records
    /\ \E e \in EntriesSeen :
          /\ ~WithinAskedYears(item_year[e])
          /\ \E i \in 1..Len(all_records) : all_records[i] > e

\* C10: the pages requested in one invocation cover pairwise disjoint ranges
\* of the result list, and no item is reported twice.
C10_NoDoubleReport ==
    /\ \A i, j \in 1..Len(pages) :
          i < j => Range(pages[i].items) \cap Range(pages[j].items) = {}
    /\ \A i, j \in 1..Len(all_records) :
          i < j => all_records[i] # all_records[j]

\* a step of SpringerNature.run_pipeline that processes one more response
SpringerResponse ==
    adapter = "springernature" /\ Len(pages') = Len(pages) + 1

\* C25: SpringerNature.run_pipeline follows the cursor protocol: the first
\* request uses the query parameters (s = 1); a later request follows the
\* nextPage link of the previous response when there is one, and otherwise
\* starts p records after the previous request; the loop stops exactly when
\* the response has no records, or the limit is reached, or the response
\* has no link and fewer than p records.
C25_CursorProtocol ==
    [][SpringerResponse =>
          LET request == Last(pages').start + 1
              records == Last(pages').items
              reached == max_records # 0 /\ Len(all_records') >= max_records
          IN  /\ request = IF pages = <<>> THEN 1
                           ELSE IF next_page # 0 THEN next_page
                           ELSE Last(pages).start + 1 + rows
              /\ fstate' = "returned"
                    <=> \/ records = <<>>
                        \/ reached
                        \/ next_page' = 0 /\ Len(records) < rows]_vars

(***************************************************************************)
(* Properties of PubMedAPI.search.                                         *)
(***************************************************************************)
\* the requests of one kind, in the order they were made
RequestsOf(kind) == SelectSeq(requests, LAMBDA r : r.kind = kind)

\* the PMIDs of the EFetch requests that were answered, in request order
DetailsAsked ==
    LET answered == SelectSeq(RequestsOf("efetch"), LAMBDA r : r.outcome = "ok")
    IN  Flatten([k \in 1..Len(answered) |-> answered[k].ids])

\* C26: PubMedAPI.search never issues an EFetch request with more than 200
\* IDs, in limited and in fetch-all mode alike: the resolved ID list is asked
\* for in consecutive batches of at most 200, every ID once, and the output
\* is the batches' results in ID-list order.
C26_EfetchBatches ==
    /\ \A k \in 1..Len(requests) :
          requests[k].kind = "efetch" => Len(requests[k].ids) <= chunk_size
    /\ pstate = "returned" =>
          /\ DetailsAsked = all_pmids
          /\ raw_entries = all_pmids

\* C27: in fetch-all mode, when the ID-search request fails with a transient
\* error on every attempt, the request is made exactly 3 times in total
\* before the search raises: the retry policies around the pagination helper
\* and around the single-page helper do not multiply the attempts.
C27_ThreeAttemptsInTotal ==
    LET searches == RequestsOf("esearch")
        allFailed == \A k \in 1..Len(searches) : searches[k].outcome # "ok"
    IN  fetch_all /\ searches # <<>> /\ allFailed =>
          /\ Len(searches) <= STOP_AFTER_ATTEMPT
          /\ pstate = "raised" => Len(searches) = STOP_AFTER_ATTEMPT

(***************************************************************************)
(* Properties of overlapped calls.                                         *)
(***************************************************************************)
\* the ESearch parameters a call sends when it runs alone
OwnParams(c) ==
    [term |-> TermOf(c),
     datetype |-> IF args[c].from_date # 0 \/ args[c].to_date # 0 THEN "pdat" ELSE "",
     mindate |-> args[c].from_date,
     maxdate |-> args[c].to_date]

\* C21: no two fetch calls share mutable state: when two PubMedAPI.search
\* calls on the same instance overlap, with whatever date ranges, the request
\* of each carries that call's own query and date bounds, and each call
\* returns the records it would return when run alone.
C21_CallsShareNothing ==
    \A c \in Callers :
        line[c] = 126 =>
            /\ params_esearch[c] = OwnParams(c)
            /\ answer[c] = Answer(OwnParams(c))

(***************************************************************************)
(* Properties of the semantic pre-triage.                                  *)
(***************************************************************************)
\* a record's scores against the key terms given, whatever was embedded
Passes(rec) ==
    /\ MaxSim(rec.incl, inclusion_keys) >= incl_threshold
    /\ IF exclusion_keys > 0
       THEN MaxSim(rec.excl, exclusion_keys) <= excl_threshold
       ELSE 0 <= excl_threshold

Ids(recs) == [k \in 1..Len(recs) |-> recs[k].id]

\* C22: with inclusion terms given, pretriage_records returns exactly the
\* input records whose inclusion score is at least the inclusion threshold
\* and whose exclusion score is at most the exclusion threshold, in input
\* order, however many records are given (more than one embedding batch
\* of 500 included).
C22_ExactlyThePassing ==
    tstate = "returned" /\ inclusion_keys > 0 =>
        Ids(filtered) = Ids(SelectSeq(input_records, Passes))

(***************************************************************************)
(* Properties of the triage command.                                       *)
(***************************************************************************)
\* an Abstract that is a non-empty, non-whitespace string other than "N/A"
\* in any letter case, the surrounding whitespace set aside
RealAbstract(rec) ==
    LET chars == rec.Abstract.chars
        inked == {k \in 1..Len(chars) : chars[k] # " "}
        first == CHOOSE k \in inked : \A j \in inked : k <= j
        last == CHOOSE k \in inked : \A j \in inked : j <= k
    IN  /\ rec.Abstract.kind = "str"
        /\ inked # {}
        /\ Upper(SubSeq(chars, first, last)) # <<"N", "/", "A">>

\* C23: with no OPENAI_API_KEY, triage writes exactly the input records whose
\* Abstract is a non-empty, non-whitespace string other than "N/A" in any
\* letter case, in input order, and never calls the LLM; a failure of the
\* semantic pre-triage does not abort triage and leaves the records unfiltered.
C23_FallbackFilter ==
    /\ ~api_key => llm_calls = 0
    /\ ~api_key /\ gstate = "saved" => output_csv = SelectSeq(tri_input, RealAbstract)
    /\ pre_failed => /\ gstate \in {"pretriaged", "saved"}
                     /\ tri_records = tri_input

\* the pre-triage failed, the simple filter ran, and it both kept and dropped
\* a record
C23_Witness ==
    /\ ~api_key /\ incl_keys /\ pre_failed /\ gstate = "saved"
    /\ Len(tri_input) = 2 /\ Len(output_csv) = 1
    /\ \E k \in 1..2 : /\ tri_input[k].Abstract.kind = "str"
                       /\ Upper(Strip(tri_input[k].Abstract.chars)) = <<"N", "/", "A">>

(***************************************************************************)
(* Properties of the orchestrator.                                         *)
(***************************************************************************)
\* the completion message has been printed
Completed == \E k \in 1..Len(shown) : shown[k].msg = "finished"

C29_ChunkTextTerminates ==
    /\ <>(kstate = "returned")
    /\ [](\A k \in 1..Len(chunks) : Len(chunks[k]) <= rag_chunk_size)

(***************************************************************************)
(* Properties of ScholarClient.search.                                     *)
(***************************************************************************)
\* the URLs of the publications before the k-th
EarlierUrls(k) == {pubs[j].pub_url : j \in 1..(k - 1)} \ {Missing}

\* C30: in ScholarClient.search the Download URL of each record comes from
\* that publication's own pub_url only: whatever the generator yields, a
\* publication without pub_url never gets the URL of an earlier publication
\* and never makes the search fail.
C30_OwnUrlOnly ==
    /\ sstate # "raised"
    /\ \A k \in 1..Len(scholar_records) :
          LET rec == scholar_records[k]
              pub == pubs[rec.id]
          IN  IF pub.pub_url # Missing
              THEN rec.DownloadURL = pub.pub_url
              ELSE rec.DownloadURL \notin EarlierUrls(rec.id)


====
